---- MODULE Spec2Model ----
(***************************************************************************)
(* A model of macaron.py: the chainable QuerySet (clause accumulation,     *)
(* attribute-path resolution, condition compilation, SQL compilation and   *)
(* execution against the storage collaborator) and the Model lifecycle     *)
(* (construct, create, save, delete).                                      *)
(*                                                                         *)
(* SQL text is kept as token sequences or small syntax trees instead of    *)
(* character strings; a dotted alias "member.team" is the sequence of its  *)
(* segments and a name "team__name__gt" the sequence of its "__" items.    *)
(* Python scalars that reach the database are tagged records so that None, *)
(* integers, text and timestamps can share one column or parameter list.   *)
(***************************************************************************)
EXTENDS Integers, Sequences, FiniteSets, TLC

----------------------------------------------------------------------------
(* Bounds of the model                                                     *)

MaxOps == 3
MaxWrap == 2
MaxDbOps == 4
MaxRelOps == 3
MaxDefOps == 4
MaxConnOps == 5
MaxAutoOps == 5
MaxHistOps == 5

----------------------------------------------------------------------------
(* Python values                                                           *)

None == [none |-> TRUE]
PyInt(n) == [i |-> n]
PyStr(s) == [s |-> s]
IsInt(v) == DOMAIN v = {"i"}
IsStr(v) == DOMAIN v = {"s"}

\* macaron.NotNull and macaron.Like, the special operands of a keyword leaf
NotNull == [notnull |-> TRUE]
Like(s) == [likestr |-> s]
IsLike(v) == DOMAIN v = {"likestr"}
\* a list or tuple operand
List(xs) == [list |-> xs]
IsList(v) == DOMAIN v = {"list"}
\* a Model instance used as an operand: only its class and pk matter here
Obj(mdl, pk) == [model |-> mdl, pk |-> pk]
IsModel(v) == DOMAIN v = {"model", "pk"}

----------------------------------------------------------------------------
(* Ordering of strings.  Python compares names character by character;     *)
(* the names of this model are listed here in that order, and a dotted or  *)
(* "__"-joined name compares segment by segment, a proper prefix first     *)
(* (both separators sort below every letter, digit and underscore).        *)

Names ==
  << "between", "code", "crew", "crew_code", "gt", "id", "in", "lnk", "made", "mate", "mate_id",
     "mates", "member", "members", "name", "ne",
     "nosuch", "note", "player", "player_id", "players", "playertaglink", "post", "post_id",
     "posttaglink", "sailor", "tag", "tag_id",
     "tags", "team", "team_id" >>

NameRank(n) == CHOOSE k \in 1..Len(Names) : Names[k] = n

RECURSIVE LexLess(_, _)
LexLess(a, b) ==
  IF b = << >> THEN FALSE
  ELSE IF a = << >> THEN TRUE
  ELSE IF Head(a) = Head(b) THEN LexLess(Tail(a), Tail(b))
  ELSE NameRank(Head(a)) < NameRank(Head(b))

\* sorted(S) for a set S of segment sequences
Sorted(S) ==
  [ k \in 1..Cardinality(S) |->
      CHOOSE x \in S : Cardinality({ y \in S : LexLess(y, x) }) = k - 1 ]

\* sorted(xs, key=...) for a list xs whose keys are the integers ks[i]:
\* Python's sort is stable
SortedByKey(xs, ks) ==
  [ k \in 1..Len(xs) |->
      xs[CHOOSE i \in 1..Len(xs) :
           Cardinality({ j \in 1..Len(xs) :
                           ks[j] < ks[i] \/ (ks[j] = ks[i] /\ j < i) }) = k - 1] ]

Range(f) == { f[x] : x \in DOMAIN f }

RECURSIVE Flatten(_)
Flatten(ss) == IF ss = << >> THEN << >> ELSE Head(ss) \o Flatten(Tail(ss))

----------------------------------------------------------------------------
(* The schema: Team(name), Member(name, team = ManyToOne(Team,             *)
(* related_name="members")), as in the module docstring, and               *)
(* Note(name = CharField(max_length=3), made = TimestampField(null=True)), *)
(* and Tag(name), Post(name, tags = ManyToMany(Tag)) with the link model    *)
(* PostTagLink that ManyToMany generates, and Crew(name, code =             *)
(* IntegerField(null=True)), Sailor(name, crew = ManyToOne(Crew, null=True, *)
(* ref_key="code", fkey="crew_code")), whose reference key is no key of     *)
(* the table, and Player(name, team = ManyToOne(Team,                      *)
(* related_name="players"), mate = ManyToOne(Team, related_name="mates"),  *)
(* tags = ManyToMany(Tag)) with the link model PlayerTagLink.              *)

Models ==
  {"crew", "member", "note", "player", "playertaglink", "post", "posttaglink", "sailor",
   "tag", "team"}

\* TableMetaInfo.fields of a model, in field order (synthetic id first)
MetaFields(mdl) ==
  IF mdl = "member" THEN << "id", "name", "team_id" >>
  ELSE IF mdl = "note" THEN << "id", "name", "made" >>
  ELSE IF mdl = "posttaglink" THEN << "id", "post_id", "tag_id" >>
  ELSE IF mdl = "crew" THEN << "id", "name", "code" >>
  ELSE IF mdl = "sailor" THEN << "id", "name", "crew_code" >>
  ELSE IF mdl = "player" THEN << "id", "name", "team_id", "mate_id" >>
  ELSE IF mdl = "playertaglink" THEN << "id", "player_id", "tag_id" >>
  ELSE << "id", "name" >>

\* TableMetaInfo.primary_key.name
PrimaryKeyName(mdl) == "id"

NoAttr == [kind |-> "none", name |-> "", model |-> "", fkey |-> "", ref_key |-> ""]
PlainField(n) == [kind |-> "field", name |-> n, model |-> "", fkey |-> "", ref_key |-> ""]

\* cls.__dict__[item]: a Field, a ManyToOne, a _ManyToOne_Rev, or KeyError
ClassDict(mdl, item) ==
  IF mdl = "member" /\ item = "team"
    THEN [kind |-> "m2o", name |-> "team", model |-> "team",
          fkey |-> "team_id", ref_key |-> "id"]
  ELSE IF mdl = "sailor" /\ item = "crew"
    THEN [kind |-> "m2o", name |-> "crew", model |-> "crew",
          fkey |-> "crew_code", ref_key |-> "code"]
  ELSE IF mdl = "team" /\ item = "members"
    THEN [kind |-> "rev", name |-> "members", model |-> "member",
          fkey |-> "team_id", ref_key |-> "id"]
  ELSE IF mdl = "player" /\ item \in {"team", "mate"}
    THEN [kind |-> "m2o", name |-> item, model |-> "team",
          fkey |-> item \o "_id", ref_key |-> "id"]
  ELSE IF mdl = "team" /\ item \in {"players", "mates"}
    THEN [kind |-> "rev", name |-> item, model |-> "player",
          fkey |-> IF item = "players" THEN "team_id" ELSE "mate_id", ref_key |-> "id"]
  ELSE IF mdl \in {"player", "post"} /\ item = "tags"
    THEN [kind |-> "m2m", name |-> "tags", model |-> "tag", fkey |-> "", ref_key |-> "",
          cls |-> mdl, lnk |-> mdl \o "taglink"]
  ELSE IF item \in Range(MetaFields(mdl)) THEN PlainField(item)
  ELSE NoAttr

\* callable(getattr(fld, "sql_joins", None))
HasSqlJoins(fld) == fld.kind \in {"m2o", "rev", "m2m"}

\* _ManyToManyBase.sql_joins: the link table under the alias "<as>.lnk",
\* then the referenced table; the link columns are named by table names
ManyToManySqlJoins(fld, as_name, tblname) ==
  << [tbl |-> fld.lnk, as |-> Append(as_name, "lnk"),
      lhs |-> << tblname, PrimaryKeyName(fld.cls) >>, rcol |-> fld.cls \o "_id"],
     [tbl |-> fld.model, as |-> as_name,
      lhs |-> << Append(as_name, "lnk"), fld.model \o "_id" >>,
      rcol |-> PrimaryKeyName(fld.model)] >>

\* ManyToOne.sql_joins / _ManyToOne_Rev.sql_joins: the list of JOIN clauses.
\* INNER JOIN "<tbl>" AS "<as>" ON <lhs> = "<as>"."<rcol>"
SqlJoins(fld, as_name, tblname) ==
  IF fld.kind = "m2o"
    THEN << [tbl |-> fld.model, as |-> as_name,
             lhs |-> << tblname, fld.fkey >>, rcol |-> fld.ref_key] >>
  ELSE IF fld.kind = "m2m"
    THEN ManyToManySqlJoins(fld, as_name, tblname)
    ELSE << [tbl |-> fld.model, as |-> as_name,
             lhs |-> << tblname, fld.ref_key >>, rcol |-> fld.fkey] >>

----------------------------------------------------------------------------
(* QuerySet.joins: a dict keyed by alias.  A Python dict keeps insertion   *)
(* order and holds one value per key; it is the list of its items.         *)

DictKeys(d) == { d[k].key : k \in DOMAIN d }

DictGet(d, key) == (CHOOSE k \in DOMAIN d : d[k].key = key)

\* a list of joins that is appended to, whatever it holds already
JoinsAppend(d, key, val) == Append(d, [key |-> key, val |-> val])

\* self.joins[asname] = clauses
JoinsPut(d, key, val) ==
  IF key \in DictKeys(d)
    THEN [ k \in DOMAIN d |-> IF d[k].key = key THEN [key |-> key, val |-> val] ELSE d[k] ]
    ELSE Append(d, [key |-> key, val |-> val])

\* QuerySet._parse_field_name: walks the items of a name from model cls,
\* adding a join for every relationship it crosses.  err is "" on success.
\* (A definition's heavy sub-results are passed on as parameters.)
RECURSIVE ParseWalk(_, _, _, _)

\* after a relationship: the next item, or the end of the name
WalkOn(fld, asname, rest, joined) ==
  IF rest = << >>
    THEN [err |-> "", curname |-> asname, fld |-> fld, items |-> << >>, joins |-> joined]
    ELSE ParseWalk(fld.model, asname, rest, joined)

\* one turn of the while loop, fld being curmdl.__dict__[item]
WalkItem(curname, item, rest, joins, fld) ==
  IF fld.kind = "none"
    THEN [err |-> "KeyError", curname |-> curname, fld |-> fld,
          items |-> rest, joins |-> joins]
  ELSE IF HasSqlJoins(fld)
    THEN WalkOn(fld, Append(curname, item), rest,
                JoinsPut(joins, Append(curname, item),
                         SqlJoins(fld, Append(curname, item), curname)))
  ELSE [err |-> "", curname |-> curname, fld |-> fld, items |-> rest, joins |-> joins]

ParseWalk(curmdl, curname, items, joins) ==
  WalkItem(curname, Head(items), Tail(items), joins, ClassDict(curmdl, Head(items)))

\* the checks after the loop, w being the loop's result
ParseResult(w) ==
  IF w.err # "" THEN [err |-> w.err, curname |-> w.curname, fld |-> w.fld,
                      op |-> "", joins |-> w.joins]
  ELSE IF Len(w.items) >= 2
    THEN [err |-> "RuntimeError", curname |-> w.curname, fld |-> w.fld,
          op |-> "", joins |-> w.joins]
  ELSE [err |-> "", curname |-> w.curname, fld |-> w.fld,
        op |-> IF Len(w.items) > 0 THEN w.items[1] ELSE "", joins |-> w.joins]

ParseFieldName(cls, joins, name) == ParseResult(ParseWalk(cls, << cls >>, name, joins))

----------------------------------------------------------------------------
(* OpConverter: one keyword leaf to an SQL template and its parameter.     *)
(* A template is its token list; "%s" stands for the quoted column.        *)

\* OpConverter.CONV
CONV(op) ==
  CASE op = "lt" -> "<" [] op = "le" -> "<=" [] op = "ge" -> ">=" [] op = "gt" -> ">"
    [] op = "ne" -> "<>" [] op = "like" -> "LIKE" [] op = "glob" -> "GLOB"
    [] op = "regexp" -> "REGEXP"

ConvOps == {"lt", "le", "ge", "gt", "ne", "like", "glob", "regexp"}

\* ",".join(["?"] * n)
RECURSIVE Holders(_)
Holders(n) ==
  IF n = 0 THEN << >> ELSE IF n = 1 THEN << "?" >> ELSE << "?", "," >> \o Holders(n - 1)

\* OpConverter._base_in
BaseIn(op, value) ==
  IF IsList(value)
    THEN [err |-> "", tmpl |-> << "%s", op, "(" >> \o Holders(Len(value.list)) \o << ")" >>,
          prm |-> value]
    ELSE [err |-> "TypeError", tmpl |-> << >>, prm |-> None]

\* OpConverter._base_between
BaseBetween(op, value) ==
  IF ~IsList(value) THEN [err |-> "TypeError", tmpl |-> << >>, prm |-> None]
  ELSE IF Len(value.list) # 2 THEN [err |-> "ValueError", tmpl |-> << >>, prm |-> None]
  ELSE [err |-> "", tmpl |-> << "%s", op, "?", "AND", "?" >>, prm |-> value]

\* OpConverter._convert (Field.to_database of the fields modelled is the identity)
Convert(value) ==
  IF value = None THEN [err |-> "", tmpl |-> << "%s", "IS NULL" >>, prm |-> None]
  ELSE IF value = NotNull THEN [err |-> "", tmpl |-> << "%s", "IS NOT NULL" >>, prm |-> None]
  ELSE IF IsLike(value) THEN [err |-> "", tmpl |-> << "%s", "LIKE", "?" >>, prm |-> PyStr(value.likestr)]
  ELSE [err |-> "", tmpl |-> << "%s", "=", "?" >>, prm |-> value]

\* OpConverter.get_clause
GetClause(op, value) ==
  IF op # ""
    THEN IF op = "in" THEN BaseIn("IN", value)
         ELSE IF op = "not_in" THEN BaseIn("NOT IN", value)
         ELSE IF op = "between" THEN BaseBetween("BETWEEN", value)
         ELSE IF op = "not_between" THEN BaseBetween("NOT BETWEEN", value)
         ELSE IF op \in ConvOps
           THEN [err |-> "", tmpl |-> << "%s", CONV(op), "?" >>, prm |-> value]
         ELSE [err |-> "ValueError", tmpl |-> << >>, prm |-> None]
    ELSE Convert(value)

----------------------------------------------------------------------------
(* Condition nodes and their compilation.                                  *)
(*   Q(kw)        [t |-> "Q", kw |-> set of << key, value >>]              *)
(*   _Qraw        [t |-> "raw", sql |-> tokens, prms |-> value]            *)
(*   _Qlst        [t |-> "lst", op |-> "AND" or "OR", kids |-> nodes]      *)
(* A compiled fragment is a tree whose rendering is the SQL text:          *)
(*   [k |-> "raw", toks]                 "(" toks ")"                      *)
(*   [k |-> "leaf", tmpl, tbl, col]      tmpl with "tbl"."col" for %s      *)
(*   [k |-> "grp", op, kids]             "(" kid op kid ... ")"            *)

Q(kw) == [t |-> "Q", kw |-> kw]
Qlst(op, kids) == [t |-> "lst", op |-> op, kids |-> kids]

\* _Qraw.__init__: a list of parameters is copied, anything else, None
\* included, becomes a one-element list
QrawPrms(prms) == IF IsList(prms) THEN prms.list ELSE << prms >>

Qraw(sql, prms) == [t |-> "raw", sql |-> sql, prms |-> QrawPrms(prms)]

\* the parameters one leaf adds: "if prm is not None: ..."
LeafPrms(prm) ==
  IF prm = None THEN << >> ELSE IF IsList(prm) THEN prm.list ELSE << prm >>

\* Q.to_sql: the items in sorted key order, each parsed against qs
RECURSIVE QItems(_, _, _, _)

NoItems(err, joins) == [err |-> err, whrs |-> << >>, prms |-> << >>, joins |-> joins]

\* the leaf of one item put before the leaves of the items after it
QItemJoin(p, c, rest) ==
  IF rest.err # "" THEN rest
  ELSE [err |-> "",
        whrs |-> << [k |-> "leaf", tmpl |-> c.tmpl, tbl |-> p.curname,
                     col |-> p.fld.name] >> \o rest.whrs,
        prms |-> LeafPrms(c.prm) \o rest.prms,
        joins |-> rest.joins]

\* one item: p its parsed key, c its clause
QItemNext(keys, kw, cls, p, c) ==
  IF p.err # "" THEN NoItems(p.err, p.joins)
  ELSE IF c.err # "" THEN NoItems(c.err, p.joins)
  ELSE QItemJoin(p, c, QItems(keys, kw, cls, p.joins))

QItemParsed(keys, kw, cls, val, p) ==
  QItemNext(keys, kw, cls, p, GetClause(p.op, val))

\* a Model instance val0 stands for <key>__<pk name> = val0.pk
QItem(keys, kw, cls, joins, key0, val0) ==
  QItemParsed(keys, kw, cls, IF IsModel(val0) THEN val0.pk ELSE val0,
    ParseFieldName(cls, joins,
      IF IsModel(val0) THEN Append(key0, PrimaryKeyName(val0.model)) ELSE key0))

QItems(keys, kw, cls, joins) ==
  IF keys = << >> THEN NoItems("", joins)
  ELSE QItem(Tail(keys), kw, cls, joins, Head(keys),
             (CHOOSE p \in kw : p[1] = Head(keys))[2])

RECURSIVE ToSql(_, _, _)
RECURSIVE LstItems(_, _, _)

LstJoin(first, rest) ==
  IF rest.err # "" THEN rest
  ELSE [err |-> "", whrs |-> << first.whr >> \o rest.whrs,
        prms |-> first.prms \o rest.prms, joins |-> rest.joins]

LstNext(kids, cls, first) ==
  IF first.err # "" THEN NoItems(first.err, first.joins)
  ELSE LstJoin(first, LstItems(kids, cls, first.joins))

\* _Qlst.to_sql: the children in list order
LstItems(kids, cls, joins) ==
  IF kids = << >> THEN NoItems("", joins)
  ELSE LstNext(Tail(kids), cls, ToSql(Head(kids), cls, joins))

\* "(%s)" % (" %s " % op).join(whrs), prms
Group(op, r) ==
  [err |-> r.err, whr |-> [k |-> "grp", op |-> op, kids |-> r.whrs],
   prms |-> r.prms, joins |-> r.joins]

\* to_sql of a condition node against query-set state (cls, joins)
ToSql(node, cls, joins) ==
  IF node.t = "raw"
    THEN [err |-> "", whr |-> [k |-> "raw", toks |-> node.sql], prms |-> node.prms,
          joins |-> joins]
  ELSE IF node.t = "Q"
    THEN Group("AND", QItems(Sorted({ p[1] : p \in node.kw }), node.kw, cls, joins))
  ELSE Group(node.op, LstItems(node.kids, cls, joins))

\* the SQL text of a compiled fragment, as tokens
RECURSIVE Render(_)
RECURSIVE RenderKids(_, _)
RenderKids(kids, op) ==
  IF kids = << >> THEN << >>
  ELSE IF Len(kids) = 1 THEN Render(kids[1])
  ELSE Render(kids[1]) \o << op >> \o RenderKids(Tail(kids), op)

Render(w) ==
  IF w.k = "raw" THEN << "(" >> \o w.toks \o << ")" >>
  ELSE IF w.k = "leaf"
    THEN [ i \in 1..Len(w.tmpl) |->
             IF w.tmpl[i] = "%s" THEN "<column>" ELSE w.tmpl[i] ]
  ELSE << "(" >> \o RenderKids(w.kids, w.op) \o << ")" >>

\* number of "?" in a token list
RECURSIVE CountHolders(_)
CountHolders(toks) ==
  IF toks = << >> THEN 0
  ELSE (IF Head(toks) = "?" THEN 1 ELSE 0) + CountHolders(Tail(toks))

----------------------------------------------------------------------------
(* QuerySet objects.  qs.clauses is a dict object of its own: a QuerySet   *)
(* record names its clauses dict by reference (field cl), so that sharing  *)
(* one dict between two query-sets is expressible.  The lists and the      *)
(* joins dict are copied by value ([:] and .copy()).                       *)

NoCursor == [open |-> FALSE, rows |-> << >>]

\* the clauses dict of a fresh QuerySet
FreshClauses ==
  [type |-> "SELECT", where |-> << >>, order_by |-> << >>, values |-> << >>,
   distinct |-> FALSE, limit |-> None, offset |-> None]

\* QuerySet.__init__(cls) for a model class, its clauses dict stored at ref
FreshQuerySet(cls, ref) ==
  [cls |-> cls, cl |-> ref,
   select_fields |-> << [alias |-> << cls >>, col |-> "*", mdl |-> cls] >>,
   joins |-> << >>, wrappers |-> << >>, subquery_serial |-> 1,
   cur |-> NoCursor, index |-> -1, cache |-> << >>]

\* a copy that keeps the parent's clauses dict instead of copying it
SharedClausesRef(parent, ref) == parent.cl

\* QuerySet.__init__(parent) for a QuerySet: where the copy's clauses live.
\* copy.deepcopy gives the new object a dict of its own, at its own ref.
CopiedClausesRef(parent, ref) == ref

\* QuerySet.__init__(parent) for a QuerySet parent
CopyQuerySet(parent, ref) ==
  [cls |-> parent.cls, cl |-> CopiedClausesRef(parent, ref),
   select_fields |-> parent.select_fields,
   joins |-> parent.joins, wrappers |-> parent.wrappers, subquery_serial |-> 1,
   cur |-> NoCursor, index |-> -1, cache |-> << >>]

\* the list left as sorted(keys) gives it, shallow and deep paths mixed
LexicalOnly(lex) == lex

\* sorted(keys, key=lambda name: len(name.split("."))), lex being sorted(keys)
ByDepth(lex) == SortedByKey(lex, [ k \in DOMAIN lex |-> Len(lex[k]) ])

\* sorted(keys) for the list of keys
Lexically(keys) ==
  SortedByKey(keys,
    [ k \in DOMAIN keys |->
        Cardinality({ y \in Range(keys) : LexLess(y, keys[k]) }) ])

\* the keys of self.joins as sql sorts them:
\* sorted(sorted(keys), key=lambda name: len(name.split(".")))
SortedJoinKeys(joins) == ByDepth(Lexically([ k \in DOMAIN joins |-> joins[k].key ]))

\* for k in keys: sqls += self.joins[k]
JoinClauses(joins, keys) ==
  Flatten([ k \in DOMAIN keys |-> joins[DictGet(joins, keys[k])].val ])

\* QuerySet.sql: the compiled statement, clause by clause
Sql(q, c) ==
  [verb |-> IF c.type = "DELETE" THEN "DELETE" ELSE "SELECT",
   distinct |-> c.type # "DELETE" /\ c.distinct,
   flds |-> IF c.type = "DELETE" THEN << >> ELSE q.select_fields,
   from |-> q.cls,
   joins |-> JoinClauses(q.joins, SortedJoinKeys(q.joins)),
   where |-> c.where,
   order_by |-> c.order_by,
   limit |-> c.limit,
   offset |-> c.offset,
   wrappers |-> q.wrappers]

\* the text of the WHERE clause: " AND ".join("(%s)" % w for w in where)
RECURSIVE WhereText(_)
WhereText(ws) ==
  IF ws = << >> THEN << >>
  ELSE << "(" >> \o Render(Head(ws)) \o << ")" >>
       \o (IF Len(ws) > 1 THEN << "AND" >> ELSE << >>) \o WhereText(Tail(ws))

----------------------------------------------------------------------------
(* The storage collaborator: what executing a compiled statement does.     *)
(* A database maps each table to its set of rows; a row is a record of     *)
(* tagged values whose id is the integer primary key (the rowid).          *)

\* the text values of the model, in their sort order
Texts == << "a", "b", "x", "y" >>

\* the sort key of a stored value: NULL first, integers and texts in order
ValRank(v) ==
  IF v = None THEN -1
  ELSE IF IsInt(v) THEN v.i
  ELSE CHOOSE k \in 1..Len(Texts) : Texts[k] = v.s

\* a table scan: the rows in rowid order
Scan(rows) ==
  [ k \in 1..Cardinality(rows) |->
      CHOOSE r \in rows : Cardinality({ x \in rows : x.id.i < r.id.i }) = k - 1 ]

\* one test "<column> <operator> <operands>" on column value v with
\* parameters ps; a comparison with NULL is never true
TestHolds(tmpl, v, ps) ==
  LET op == tmpl[2]
  IN  CASE op = "IS NULL" -> v = None
        [] op = "IS NOT NULL" -> v # None
        [] op = "=" -> v # None /\ ps[1] # None /\ v = ps[1]
        [] op = "<>" -> v # None /\ ps[1] # None /\ v # ps[1]
        [] op = "IN" -> v # None /\ \E k \in DOMAIN ps : v = ps[k]
        [] op = "NOT IN" -> v # None /\ \A k \in DOMAIN ps : ps[k] # None /\ v # ps[k]
        [] op = "<" -> v # None /\ ps[1] # None /\ ValRank(v) < ValRank(ps[1])
        [] op = ">" -> v # None /\ ps[1] # None /\ ValRank(v) > ValRank(ps[1])
        [] op = "BETWEEN" -> v # None /\ ps[1] # None /\ ps[2] # None
                             /\ ValRank(ps[1]) <= ValRank(v) /\ ValRank(v) <= ValRank(ps[2])
        [] OTHER -> FALSE

\* whether fragment w holds in env, its placeholders bound to ps in order
RECURSIVE Holds(_, _, _, _)
RECURSIVE KidsHold(_, _, _, _, _)

\* the first kid takes its n parameters, the others the rest
KidsSplit(kids, op, ps, env, base, n) ==
  IF op = "AND"
    THEN Holds(Head(kids), SubSeq(ps, 1, n), env, base)
         /\ KidsHold(Tail(kids), op, SubSeq(ps, n + 1, Len(ps)), env, base)
    ELSE Holds(Head(kids), SubSeq(ps, 1, n), env, base)
         \/ KidsHold(Tail(kids), op, SubSeq(ps, n + 1, Len(ps)), env, base)

KidsHold(kids, op, ps, env, base) ==
  IF kids = << >> THEN op = "AND"
  ELSE KidsSplit(kids, op, ps, env, base, CountHolders(Render(Head(kids))))

\* a raw fragment names a column of the base table first, then the test
Holds(w, ps, env, base) ==
  IF w.k = "raw" THEN TestHolds(w.toks, env[<< base >>][w.toks[1]], ps)
  ELSE IF w.k = "leaf" THEN TestHolds(w.tmpl, env[w.tbl][w.col], ps)
  ELSE KidsHold(w.kids, w.op, ps, env, base)

\* env extended by each of the rows hits under alias as
Extend(env, as, hits) ==
  [ h \in DOMAIN hits |->
      [ a \in DOMAIN env \cup {as} |-> IF a = as THEN hits[h] ELSE env[a] ] ]

\* the rows of table rows whose column rcol equals v
Matches(rows, rcol, v) == Scan({ r \in rows : v # None /\ r[rcol] = v })

\* INNER JOIN: every env extended by each matching row of the joined table
JoinStep(envs, j, db) ==
  Flatten([ k \in DOMAIN envs |->
    Extend(envs[k], j.as, Matches(db[j.tbl], j.rcol, envs[k][j.lhs[1]][j.lhs[2]])) ])

RECURSIVE JoinAll(_, _, _)
JoinAll(envs, joins, db) ==
  IF joins = << >> THEN envs
  ELSE JoinAll(JoinStep(envs, Head(joins), db), Tail(joins), db)

\* every JOIN refers to the base table or to an alias joined before it
RECURSIVE JoinsResolve(_, _)
JoinsResolve(joins, known) ==
  joins = << >>
  \/ (/\ Head(joins).lhs[1] \in known
      /\ Head(joins).as \notin known
      /\ JoinsResolve(Tail(joins), known \cup {Head(joins).as}))

\* ORDER BY: a stable sort by the last key first
RECURSIVE OrderEnvs(_, _)

OrderByKey(inner, o) ==
  SortedByKey(inner,
    [ k \in DOMAIN inner |->
        IF o.desc THEN 0 - ValRank(inner[k][o.tbl][o.col])
        ELSE ValRank(inner[k][o.tbl][o.col]) ])

OrderEnvs(envs, order_by) ==
  IF order_by = << >> THEN envs
  ELSE OrderByKey(OrderEnvs(envs, Tail(order_by)), Head(order_by))

\* the result row of env: a whole model row per "alias".*, else one value
Project(env, flds) ==
  [ k \in DOMAIN flds |->
      IF flds[k].col = "*" THEN env[flds[k].alias] ELSE env[flds[k].alias][flds[k].col] ]

\* the elements of xs at the positions keep, in order
Pick(xs, keep) ==
  [ n \in 1..Cardinality(keep) |->
      xs[CHOOSE k \in keep : Cardinality({ j \in keep : j < k }) = n - 1] ]

\* DISTINCT keeps the first of equal result rows
Distinct(rows) ==
  Pick(rows, { k \in DOMAIN rows : \A j \in 1..(k - 1) : rows[j] # rows[k] })

\* LIMIT n OFFSET m; a negative limit is no limit
Window(rows, limit, offset) ==
  LET off == IF offset = None \/ offset.i < 0 THEN 0 ELSE offset.i
      last == IF limit = None \/ limit.i < 0 THEN Len(rows)
              ELSE IF off + limit.i < Len(rows) THEN off + limit.i ELSE Len(rows)
  IN  SubSeq(rows, off + 1, last)

\* total number of "?" in the statement
SqlHolders(sql) == CountHolders(WhereText(sql.where))

\* FROM: one env per row of the table
FromRows(from, rows) == [ k \in DOMAIN rows |-> [ a \in {<< from >>} |-> rows[k] ] ]

\* WHERE: the envs in which every condition holds
Filter(envs, sql, ps) ==
  Pick(envs, { k \in DOMAIN envs : KidsHold(sql.where, "AND", ps, envs[k], sql.from) })

ProjectAll(envs, flds) == [ k \in DOMAIN envs |-> Project(envs[k], flds) ]

\* the rows of the SELECT part of sql with parameters ps
SelectRows(sql, ps, db) ==
  Window(
    IF sql.distinct
      THEN Distinct(ProjectAll(OrderEnvs(Filter(
             JoinAll(FromRows(sql.from, Scan(db[sql.from])), sql.joins, db),
             sql, ps), sql.order_by), sql.flds))
      ELSE ProjectAll(OrderEnvs(Filter(
             JoinAll(FromRows(sql.from, Scan(db[sql.from])), sql.joins, db),
             sql, ps), sql.order_by), sql.flds),
    sql.limit, sql.offset)

\* the first result column that is an id, k being its position
IdAt(row, flds, k) == IF flds[k].col = "*" THEN row[k].id ELSE row[k]

IdColumns(flds) == { k \in DOMAIN flds : flds[k].col \in {"*", "id"} }

Least(ks) == CHOOSE x \in ks : \A y \in ks : x <= y

\* SELECT "pk" FROM (...): the ids the statement selects; without such a
\* result column the name refers to the row being deleted
SelectedIds(rows, flds, all) ==
  IF IdColumns(flds) # {}
    THEN { IdAt(rows[k], flds, Least(IdColumns(flds))) : k \in DOMAIN rows }
    ELSE IF rows = << >> THEN {} ELSE { r.id : r \in all }

\* the wrappers a QuerySet can carry
DeleteWrapper(cls) == [w |-> "DELETE", tbl |-> cls, pk |-> PrimaryKeyName(cls)]
AggWrapper(name, field_name, alias) ==
  [w |-> "AGG", name |-> name, field_name |-> field_name, alias |-> alias]

\* the statement run, rows being those of its SELECT part
Executed(sql, db, rows) ==
  IF sql.wrappers = << >> THEN [err |-> "", rows |-> rows, db |-> db]
  ELSE IF Len(sql.wrappers) = 1 /\ sql.wrappers[1].w = "AGG"
    THEN [err |-> "", rows |-> << << PyInt(Len(rows)) >> >>, db |-> db]
  ELSE IF Len(sql.wrappers) = 1 /\ sql.wrappers[1].w = "DELETE"
    THEN [err |-> "", rows |-> << >>,
          db |-> [db EXCEPT ![sql.wrappers[1].tbl] =
                    LET ids == SelectedIds(rows, sql.flds, @)
                    IN  { r \in @ : r.id \notin ids }]]
  ELSE [err |-> "OperationalError", rows |-> << >>, db |-> db]

\* execute(sql, params): the cursor's rows and the database afterwards, or
\* the error sqlite3 raises.  A DELETE wrapper is only valid as the single
\* wrapper around a SELECT.
Execute(sql, ps, db) ==
  IF SqlHolders(sql) # Len(ps)
    THEN [err |-> "ProgrammingError", rows |-> << >>, db |-> db]
  ELSE IF ~JoinsResolve(sql.joins, {<< sql.from >>})
    THEN [err |-> "OperationalError", rows |-> << >>, db |-> db]
  ELSE Executed(sql, db, SelectRows(sql, ps, db))

----------------------------------------------------------------------------
(* State                                                                   *)

VARIABLES
  qs,        \* the QuerySet objects alive, by slot
  clauses,   \* the clauses dict objects, by reference
  recv,      \* the slot of the query-set the program holds and calls next
  db,        \* the database: table name -> set of rows
  call,      \* the last call made: operation, arguments, error or result
  nops,      \* number of calls made so far
  obj,       \* the Model object the program holds, or None
  rowid,     \* the connection's last insert rowid
  removed,   \* history: a delete() of the object held has removed its row
  module,    \* the model class objects made so far, in creation order
  fields,    \* the Field and ManyToMany objects made so far, in creation order
  suspended, \* ModelMeta.suspended: the relationships waiting for a class
  pre_field_order, \* _pre_field_order: the Field objects in creation order
  readers,   \* the loops reading one shared QuerySet, and what each has seen
  conn,      \* the LazyConnection: its sqlite3 connection and how it was used
  macaron,   \* _m, the Macaron object, and the transaction of its connection
  history,   \* history, the ListHandler: its _max_count and its _list
  cursors    \* the number of cursors execute() has opened so far

vars ==
  << qs, clauses, recv, db, call, nops, obj, rowid, removed,
     module, fields, suspended, pre_field_order, readers, conn, macaron, history, cursors >>

\* the state of class definition, of the readers and of the connection
metavars == << module, fields, suspended, pre_field_order >>
globalvars == << macaron, history, cursors >>
sidevars == << metavars, readers, conn, globalvars >>

\* what the query-set operations leave alone, and the model operations
modelvars == << obj, rowid, removed >>
qsvars == << qs, clauses, recv >>

\* the connection object the program holds: made once there is one, lazy for
\* a LazyConnection, conn once its sqlite3 connection is there (for a
\* LazyConnection: self._conn is set), opened counting the calls of
\* sqlite3.connect made for it, closed once that connection was closed
NoConnection == [made |-> FALSE, lazy |-> FALSE, conn |-> FALSE, opened |-> 0, closed |-> FALSE]

Slots == {1, 2}
Other(r) == 3 - r

NoCall == [op |-> "", err |-> "", arg |-> None, out |-> None]
Call(op, err, arg, out) == [op |-> op, err |-> err, arg |-> arg, out |-> out]

Member(id, name, team_id) == [id |-> PyInt(id), name |-> PyStr(name), team_id |-> team_id]
Team(id, name) == [id |-> PyInt(id), name |-> PyStr(name)]

\* the databases a run may start from
InitialDbs ==
  { [member |-> { Member(1, "a", PyInt(1)), Member(2, "b", PyInt(1)), Member(3, "a", None) },
     team |-> { Team(1, "x"), Team(2, "y") }, note |-> {}],
    [member |-> { Member(1, "a", PyInt(2)) }, team |-> { Team(2, "y") }, note |-> {}] }

\* no statement has been run and no object made
FreshObjects ==
  /\ qs = [ r \in Slots |-> FreshQuerySet("member", r) ]
  /\ clauses = [ r \in Slots |-> FreshClauses ]
  /\ recv = 1
  /\ call = NoCall
  /\ nops = 0
  /\ obj = None
  /\ rowid = 0
  /\ removed = FALSE

\* no class statement followed
NoClasses ==
  /\ module = << >>
  /\ fields = << >>
  /\ suspended = << >>
  /\ pre_field_order = << >>

\* "_m = None" and "history = None" of the module: no Macaron object, and
\* no statement recorded (ListHandler(-1) once macaronage has run)
NotLoaded == [loaded |-> FALSE, autocommit |-> FALSE, pending |-> {}]
NoHistory == [max_count |-> -1, list |-> << >>, emitted |-> 0]

NoGlobals ==
  /\ macaron = NotLoaded
  /\ history = NoHistory
  /\ cursors = 0

FreshProgram ==
  /\ FreshObjects
  /\ NoClasses
  /\ NoGlobals
  /\ readers = << >>
  /\ conn = NoConnection

InitQS ==
  /\ FreshProgram
  /\ db \in InitialDbs

\* the receiver and its clauses dict
Self == qs[recv]
SelfClauses == clauses[qs[recv].cl]

\* newset = self.__class__(self) followed by changes that leave newset as
\* newq with clauses newc; the call returns newset (err = "") or raises
Returns(op, arg, newq, newc) ==
  /\ qs' = [qs EXCEPT ![Other(recv)] = newq]
  /\ clauses' = [clauses EXCEPT ![newq.cl] = newc]
  /\ recv' = Other(recv)
  /\ call' = Call(op, "", arg, None)
  /\ nops' = nops + 1
  /\ UNCHANGED << db, modelvars, sidevars >>

\* the call raises: newset is dropped, and what was written to its clauses
\* dict stays written to that dict
Raises(op, arg, err, newq, newc) ==
  /\ clauses' = IF newq.cl = Other(recv) THEN clauses
                ELSE [clauses EXCEPT ![newq.cl] = newc]
  /\ call' = Call(op, err, arg, None)
  /\ nops' = nops + 1
  /\ UNCHANGED << qs, recv, db, modelvars, sidevars >>

NewSet == CopyQuerySet(Self, Other(recv))

----------------------------------------------------------------------------
(* QuerySet.select                                                         *)

\* the call returns newq with clauses newc, or raises r.err
Finish(op, arg, r, newc) ==
  IF r.err = "" THEN Returns(op, arg, r.q, newc) ELSE Raises(op, arg, r.err, r.q, newc)

\* args of select: a leading SQL string becomes one _Qraw of the string and
\* the argument after it
SelectArgs(in) ==
  IF in.form = "sql"
    THEN << Qraw(in.sql, IF in.rest = << >> THEN None ELSE in.rest[1]) >>
    ELSE in.args

\* Q(*args, **kw): the keywords are one more condition after the arguments
SelectNode(args, kw) == Qlst("AND", IF kw # {} THEN Append(args, Q(kw)) ELSE args)

\* newset after to_sql returned r: the joins are written while parsing, the
\* condition and its parameters only when to_sql returns
SelectApply(q, c, r) ==
  IF r.err # "" THEN [err |-> r.err, q |-> [q EXCEPT !.joins = r.joins], c |-> c]
  ELSE [err |-> "",
        q |-> [q EXCEPT !.joins = r.joins],
        c |-> [c EXCEPT !.where = Append(@, r.whr), !.values = @ \o r.prms]]

\* the effect of select(*args, **kw) on newset: its error, joins, clauses
SelectOn(q, c, in) ==
  IF in.form = "sql" /\ Len(in.rest) > 1
    THEN [err |-> "RuntimeError", q |-> q, c |-> c]
  ELSE IF in.form # "sql" /\ in.args = << >> /\ in.kw = {}
    THEN [err |-> "", q |-> q, c |-> c]
  ELSE SelectApply(q, c,
         ToSql(SelectNode(SelectArgs(in), IF in.form = "sql" THEN {} ELSE in.kw),
               q.cls, q.joins))

SqlForm(sql, rest) == [form |-> "sql", sql |-> sql, rest |-> rest, args |-> << >>, kw |-> {}]
QForm(args, kw) == [form |-> "q", sql |-> << >>, rest |-> << >>, args |-> args, kw |-> kw]

\* the select calls of the query-building specification
SelectInputs ==
  { QForm(<< >>, {}),
    QForm(<< >>, { << << "name" >>, PyStr("a") >> }),
    QForm(<< >>, { << << "team", "name" >>, PyStr("x") >> }),
    QForm(<< >>, { << << "team", "members", "name" >>, PyStr("b") >> }),
    QForm(<< >>, { << << "nosuch" >>, PyStr("a") >> }) }

SelectDone(in, r) == Finish("select", in, r, r.c)

Select(in) ==
  /\ nops < MaxOps
  /\ SelectDone(in, SelectOn(NewSet, SelfClauses, in))

----------------------------------------------------------------------------
(* QuerySet.join, order_by, fields, distinct, limit, offset, __getitem__   *)

\* join(*names): every name parsed against newset
RECURSIVE JoinOn(_, _)

JoinParsed(q, rest, p) ==
  IF p.err # "" THEN [err |-> p.err, q |-> [q EXCEPT !.joins = p.joins]]
  ELSE JoinOn([q EXCEPT !.joins = p.joins], rest)

JoinOn(q, names) ==
  IF names = << >> THEN [err |-> "", q |-> q]
  ELSE JoinParsed(q, Tail(names), ParseFieldName(q.cls, q.joins, Head(names)))

JoinInputs ==
  { << << "team" >> >>, << << "team", "members" >>, << "team" >> >>,
    << << "team", "nosuch" >> >> }

Join(names) ==
  /\ nops < MaxOps
  /\ Finish("join", names, JoinOn(NewSet, names), SelfClauses)

\* order_by(*names); a name is its items with desc set for a leading "-".
\* A relationship orders by the primary key of the model it leads to.
RECURSIVE OrderByOn(_, _, _)

OrderKey(p, desc) ==
  [tbl |-> p.curname,
   col |-> IF HasSqlJoins(p.fld) THEN PrimaryKeyName(p.fld.model) ELSE p.fld.name,
   desc |-> desc]

OrderByParsed(q, c, n, rest, p) ==
  IF p.err # "" THEN [err |-> p.err, q |-> [q EXCEPT !.joins = p.joins], c |-> c]
  ELSE IF p.op # ""
    THEN [err |-> "RuntimeError", q |-> [q EXCEPT !.joins = p.joins], c |-> c]
  ELSE OrderByOn([q EXCEPT !.joins = p.joins],
                 [c EXCEPT !.order_by = Append(@, OrderKey(p, n.desc))], rest)

OrderByOn(q, c, names) ==
  IF names = << >> THEN [err |-> "", q |-> q, c |-> c]
  ELSE OrderByParsed(q, c, Head(names), Tail(names),
                     ParseFieldName(q.cls, q.joins, Head(names).items))

Asc(items) == [items |-> items, desc |-> FALSE]
Desc(items) == [items |-> items, desc |-> TRUE]

OrderByInputs ==
  { << Desc(<< "id" >>) >>, << Asc(<< "team" >>) >>, << Asc(<< "name", "gt" >>) >> }

OrderByDone(names, r) == Finish("order_by", names, r, r.c)

OrderBy(names) ==
  /\ nops < MaxOps
  /\ OrderByDone(names, OrderByOn(NewSet, SelfClauses, names))

\* fields(*names) for field names (field(name) is fields(name))
RECURSIVE FieldsOn(_, _)

\* the select_fields entry of a parsed name: a relationship selects the
\* related model's row
FieldInfo(p) ==
  IF HasSqlJoins(p.fld)
    THEN [alias |-> p.curname, col |-> "*", mdl |-> p.fld.model]
    ELSE [alias |-> p.curname, col |-> p.fld.name, mdl |-> ""]

FieldsParsed(q, rest, p) ==
  IF p.err # "" THEN [err |-> p.err, q |-> [q EXCEPT !.joins = p.joins]]
  ELSE FieldsOn([q EXCEPT !.joins = p.joins, !.select_fields = Append(@, FieldInfo(p))],
                rest)

FieldsOn(q, names) ==
  IF names = << >> THEN [err |-> "", q |-> q]
  ELSE FieldsParsed(q, Tail(names), ParseFieldName(q.cls, q.joins, Head(names)))

FieldsInputs ==
  { << << "name" >> >>, << << "team" >>, << "id" >> >>, << << "nosuch" >> >> }

Fields(names) ==
  /\ nops < MaxOps
  /\ Finish("fields", names, FieldsOn([NewSet EXCEPT !.select_fields = << >>], names),
            SelfClauses)

DistinctCall ==
  /\ nops < MaxOps
  /\ Returns("distinct", None, NewSet, [SelfClauses EXCEPT !.distinct = TRUE])

LimitInputs == {0, 1}

Limit(n) ==
  /\ nops < MaxOps
  /\ Returns("limit", PyInt(n), NewSet, [SelfClauses EXCEPT !.limit = PyInt(n)])

\* newset.clauses["limit"] or -1: None and 0 both give -1
LimitOrUnbounded(limit) ==
  IF limit = None \/ limit.i = 0 THEN PyInt(-1) ELSE limit

OffsetInputs == {0, 1}

Offset(n) ==
  /\ nops < MaxOps
  /\ Returns("offset", PyInt(n), NewSet,
             [SelfClauses EXCEPT !.offset = PyInt(n), !.limit = LimitOrUnbounded(@)])

\* a slice start taken as the absolute offset
SliceOffsetAbsolute(offset, start) == PyInt(start)

\* (newset.clauses["offset"] or 0) + start
SliceOffset(offset, start) ==
  PyInt((IF offset = None THEN 0 ELSE offset.i) + start)

\* start = k.start or 0
SliceStart(sl) == IF sl.start = None THEN 0 ELSE sl.start.i

\* the limit of the slice, c1 being the clauses with the offset set
SliceLimit(c1, sl, start) ==
  IF sl.stop = None THEN [err |-> "", c |-> [c1 EXCEPT !.limit = PyInt(-1)]]
  ELSE IF sl.stop.i < start THEN [err |-> "ValueError", c |-> c1]
  ELSE [err |-> "", c |-> [c1 EXCEPT !.limit = PyInt(sl.stop.i - start)]]

\* __getitem__(slice(start, stop, step)) on newset's clauses
SliceOn(c, sl) ==
  IF sl.step # PyInt(1) /\ sl.step # None THEN [err |-> "ValueError", c |-> c]
  ELSE SliceLimit([c EXCEPT !.offset = SliceOffset(@, SliceStart(sl))], sl, SliceStart(sl))

Slice(a, b, st) == [start |-> a, stop |-> b, step |-> st]

SliceInputs ==
  { Slice(PyInt(2), PyInt(5), None), Slice(None, PyInt(2), PyInt(1)),
    Slice(PyInt(1), None, None), Slice(PyInt(2), PyInt(1), None),
    Slice(PyInt(1), PyInt(3), PyInt(2)), Slice(PyInt(1), PyInt(1), None) }

GetItemDone(sl, r) ==
  IF r.err = "" THEN Returns("getitem", sl, NewSet, r.c)
  ELSE Raises("getitem", sl, r.err, NewSet, r.c)

GetItem(sl) ==
  /\ nops < MaxOps
  /\ GetItemDone(sl, SliceOn(SelfClauses, sl))

----------------------------------------------------------------------------
(* QuerySet.delete, aggregate / count, get                                 *)

\* self._execute(): the cursor state is cleared, then self.sql is run
Cleared(q) == [q EXCEPT !.cur = NoCursor, !.index = -1, !.cache = << >>]

\* the receiver q1 and the database once the statement has run as x
DeleteDone(q1, x) ==
  /\ qs' = [qs EXCEPT ![recv] =
              IF x.err = "" THEN [q1 EXCEPT !.cur = [open |-> TRUE, rows |-> x.rows]]
              ELSE q1]
  /\ db' = x.db
  /\ call' = Call("delete", x.err, None, None)

DeleteExecute(q1) == DeleteDone(q1, Execute(Sql(q1, SelfClauses), SelfClauses.values, db))

\* delete(): the wrapper is appended to self.wrappers, then self._execute()
Delete ==
  /\ nops < MaxOps
  /\ Len(Self.wrappers) < MaxWrap
  /\ DeleteExecute(Cleared([Self EXCEPT !.wrappers = Append(@, DeleteWrapper(Self.cls))]))
  /\ nops' = nops + 1
  /\ UNCHANGED << clauses, recv, modelvars, sidevars >>

\* newset.next(): the first row's first column
AggregateDone(name, x) ==
  /\ db' = x.db
  /\ call' = IF x.err # "" THEN Call("aggregate", x.err, name, None)
             ELSE IF x.rows = << >> THEN Call("aggregate", "StopIteration", name, None)
             ELSE Call("aggregate", "", name, x.rows[1][1])

AggregateExecute(name, newq) ==
  AggregateDone(name, Execute(Sql(newq, SelfClauses), SelfClauses.values, db))

\* aggregate(agg): newset gets the wrapper, named by self's serial, which
\* self then increments; newset.next() runs it and returns row[0]
Aggregate(name, field_name) ==
  /\ nops < MaxOps
  /\ AggregateExecute(name,
       [NewSet EXCEPT !.wrappers =
          Append(@, AggWrapper(name, field_name, << recv, Self.subquery_serial >>))])
  /\ qs' = [qs EXCEPT ![recv].subquery_serial = @ + 1]
  /\ nops' = nops + 1
  /\ UNCHANGED << clauses, recv, modelvars, sidevars >>

\* count() is aggregate(Count("*"))
Count == Aggregate("COUNT", "*")

\* get(*args, **kw): one positional argument is the primary key
GetSelectInput(in) ==
  IF in.form = "pk"
    THEN QForm(<< >>, { << << PrimaryKeyName(Self.cls) >>, in.pk >> })
    ELSE in

PkForm(pk) == [form |-> "pk", pk |-> pk]

GetInputs ==
  { QForm(<< >>, {}), PkForm(PyInt(1)),
    QForm(<< >>, { << << "name" >>, PyStr("a") >> }) }

\* the outcome of get: qs = self.select(...); obj = qs.next(); qs.next()
GetOutcome(rows) ==
  IF rows = << >> THEN [err |-> "DoesNotExist", out |-> None]
  ELSE IF Len(rows) = 1 THEN [err |-> "", out |-> rows[1]]
  ELSE [err |-> "MultipleObjectsReturned", out |-> None]

GetCall(in, o) == Call("get", o.err, in, o.out)

\* qs.next() twice on the selected query-set, its statement run as x
GetDone(in, x) ==
  /\ db' = x.db
  /\ call' = IF x.err # "" THEN Call("get", x.err, in, None)
             ELSE GetCall(in, GetOutcome(x.rows))

\* r is what self.select(*args, **kw) did to the new query-set
GetSelected(in, r) ==
  /\ clauses' = IF r.q.cl = Other(recv) THEN clauses
                ELSE [clauses EXCEPT ![r.q.cl] = r.c]
  /\ IF r.err # "" THEN db' = db /\ call' = Call("get", r.err, in, None)
     ELSE GetDone(in, Execute(Sql(r.q, r.c), r.c.values, db))

Get(in) ==
  /\ nops < MaxOps
  /\ GetSelected(in, SelectOn(NewSet, SelfClauses, GetSelectInput(in)))
  /\ nops' = nops + 1
  /\ UNCHANGED << qs, recv, modelvars, sidevars >>

----------------------------------------------------------------------------
(* The query-building specification                                        *)

NextQS ==
  \/ \E in \in SelectInputs : Select(in)
  \/ \E names \in JoinInputs : Join(names)
  \/ \E names \in OrderByInputs : OrderBy(names)
  \/ \E names \in FieldsInputs : Fields(names)
  \/ DistinctCall
  \/ \E n \in LimitInputs : Limit(n)
  \/ \E n \in OffsetInputs : Offset(n)
  \/ \E sl \in SliceInputs : GetItem(sl)
  \/ Delete
  \/ Count
  \/ \E in \in GetInputs : Get(in)

Spec == InitQS /\ [][NextQS]_vars

----------------------------------------------------------------------------
(* Properties of the query-building specification                          *)

TransformOps ==
  {"select", "join", "order_by", "fields", "distinct", "limit", "offset", "getitem"}

\* C1: a transformation (select, all, join, order_by, fields, distinct,
\* limit, offset, slicing), whether it returns or raises, leaves the
\* receiver's compiled SQL and parameter list as they were; when it returns,
\* the result is another object than the receiver.
ReceiverUnchangedByTransformations ==
  [][ call'.op \in TransformOps =>
        /\ Sql(qs'[recv], clauses'[qs'[recv].cl]) = Sql(qs[recv], clauses[qs[recv].cl])
        /\ clauses'[qs'[recv].cl].values = clauses[qs[recv].cl].values
        /\ (call'.err = "" => recv' # recv) ]_vars

\* a chained select has returned: the result has two conditions, the
\* query-set it was called on still has one
SelectChained ==
  /\ call.op = "select" /\ call.err = ""
  /\ Len(clauses[qs[recv].cl].where) = 2
  /\ Len(clauses[qs[Other(recv)].cl].where) = 1
  /\ Len(clauses[qs[recv].cl].values) = 2

\* C2: delete() and aggregate()/count() leave the receiver's wrapper stack,
\* compiled SQL and parameters as they were.
ReceiverUnchangedByDeleteAndAggregate ==
  [][ call'.op \in {"delete", "aggregate"} =>
        /\ qs'[recv].wrappers = qs[recv].wrappers
        /\ Sql(qs'[recv], clauses'[qs'[recv].cl]) = Sql(qs[recv], clauses[qs[recv].cl])
        /\ clauses'[qs'[recv].cl].values = clauses[qs[recv].cl].values ]_vars

\* count() answered with the length of rows whenever running x, the
\* receiver's own statement, gave rows
CountsRows(x) ==
  x.err = "" => call'.err = "" /\ call'.out = PyInt(Len(x.rows))

\* C17: count() returns the number of rows that iterating the same
\* query-set yields: 0 for an empty selection, the number of rows of the
\* table without a filter, the size of the window under filters, limit or
\* offset.
CountMatchesIteration ==
  [][ call'.op = "aggregate" /\ call'.arg = "COUNT" =>
        CountsRows(Execute(Sql(Self, SelfClauses), SelfClauses.values, db)) ]_vars

\* the aliases a compiled fragment refers to
RECURSIVE FragAliases(_)
FragAliases(w) ==
  IF w.k = "raw" THEN {}
  ELSE IF w.k = "leaf" THEN {w.tbl}
  ELSE UNION { FragAliases(w.kids[k]) : k \in DOMAIN w.kids }

\* the relationship aliases the statement refers to outside its JOINs
UsedAliases(sql) ==
  { a \in UNION { FragAliases(sql.where[k]) : k \in DOMAIN sql.where }
          \cup { sql.order_by[k].tbl : k \in DOMAIN sql.order_by }
          \cup { sql.flds[k].alias : k \in DOMAIN sql.flds } : Len(a) > 1 }

JoinCount(sql, alias) == Cardinality({ k \in DOMAIN sql.joins : sql.joins[k].as = alias })

\* C4: in the compiled SQL of every query-set, every relationship path that
\* a condition, an order key or a projected field goes through has exactly
\* one JOIN, under the alias "<owning-alias>.<attribute-name>", and no alias
\* is joined twice.
OneJoinPerPath ==
  \A r \in Slots :
    LET sql == Sql(qs[r], clauses[qs[r].cl])
    IN  /\ \A a \in UsedAliases(sql) : JoinCount(sql, a) = 1
        /\ \A k \in DOMAIN sql.joins : JoinCount(sql, sql.joins[k].as) = 1

\* two conditions of one query-set both go through member.team
SamePathTwice ==
  LET c == clauses[qs[recv].cl]
  IN  /\ Len(c.where) = 2
      /\ \A k \in 1..2 : \E a \in FragAliases(c.where[k]) :
            Len(a) >= 2 /\ SubSeq(a, 1, 2) = << "member", "team" >>
      /\ JoinCount(Sql(qs[recv], c), << "member", "team" >>) = 1

\* the rows the select of a get call matches, were it simply iterated
SelectedRows(r) == SelectRows(Sql(r.q, r.c), r.c.values, db)

MatchingRows(in) == SelectedRows(SelectOn(NewSet, SelfClauses, GetSelectInput(in)))

GetSelectError(in) == SelectOn(NewSet, SelfClauses, GetSelectInput(in)).err

\* the outcome c of a get call against the rows that match
OutcomeByCount(c, rows) ==
  /\ Len(rows) = 1 => c.err = "" /\ c.out = rows[1]
  /\ Len(rows) = 0 => c.err = "DoesNotExist"
  /\ Len(rows) >= 2 => c.err = "MultipleObjectsReturned"

\* C5: get returns the matching object when exactly one row matches, raises
\* DoesNotExist when none does and MultipleObjectsReturned when two or more
\* do, and never changes the table.
GetByMatchCount ==
  [][ call'.op = "get" /\ GetSelectError(call'.arg) = "" =>
        /\ OutcomeByCount(call', MatchingRows(call'.arg))
        /\ db' = db ]_vars

\* C10: qs[a:b] raises ValueError for a step other than 1 or None and for
\* b < a; otherwise it returns a new query-set whose offset is (qs's offset
\* or 0) + a and whose limit is b - a; qs keeps its SQL and parameters.
SliceComposes ==
  [][ call'.op = "getitem" =>
        LET sl == call'.arg
            a == IF sl.start = None THEN 0 ELSE sl.start.i
            old == clauses[qs[recv].cl]
            new == clauses'[qs'[recv'].cl]
        IN  /\ IF sl.step \notin {None, PyInt(1)} THEN call'.err = "ValueError"
               ELSE IF sl.stop # None /\ sl.stop.i < a THEN call'.err = "ValueError"
               ELSE /\ call'.err = "" /\ recv' # recv
                    /\ new.offset = PyInt((IF old.offset = None THEN 0 ELSE old.offset.i) + a)
                    /\ sl.stop # None => new.limit = PyInt(sl.stop.i - a)
            /\ Sql(qs'[recv], clauses'[qs'[recv].cl]) = Sql(qs[recv], clauses[qs[recv].cl])
            /\ clauses'[qs'[recv].cl].values = old.values ]_vars

\* offset(1) then [2:5]: offset 3, limit 3, the receiver still at offset 1
SliceAfterOffset ==
  /\ call.op = "getitem" /\ call.err = ""
  /\ call.arg = Slice(PyInt(2), PyInt(5), None)
  /\ clauses[qs[Other(recv)].cl].offset = PyInt(1)
  /\ clauses[qs[recv].cl].offset = PyInt(3)
  /\ clauses[qs[recv].cl].limit = PyInt(3)

----------------------------------------------------------------------------
(* The condition-compilation specification: chained select calls over the  *)
(* kinds of condition select accepts.                                      *)

CondInputs ==
  { \* select("name = ?", ["a"]) and select("team_id IS NULL")
    SqlForm(<< "name", "=", "?" >>, << List(<< PyStr("a") >>) >>),
    SqlForm(<< "team_id", "IS NULL" >>, << >>),
    SqlForm(<< "name", "=", "?" >>, << PyStr("a"), PyStr("b") >>),
    \* keyword leaves
    QForm(<< >>, { << << "name" >>, PyStr("a") >>, << << "id" >>, PyInt(1) >> }),
    QForm(<< >>, { << << "team_id" >>, None >> }),
    QForm(<< >>, { << << "name" >>, NotNull >> }),
    QForm(<< >>, { << << "name" >>, Like("a%") >> }),
    QForm(<< >>, { << << "id", "in" >>, List(<< PyInt(1), PyInt(2) >>) >> }),
    QForm(<< >>, { << << "id", "between" >>, List(<< PyInt(1), PyInt(2) >>) >> }),
    QForm(<< >>, { << << "id", "between" >>, List(<< PyInt(1) >>) >> }),
    QForm(<< >>, { << << "id", "gt" >>, PyInt(1) >> }),
    QForm(<< >>, { << << "name", "ne" >>, None >> }),
    QForm(<< >>, { << << "team" >>, Obj("team", PyInt(1)) >> }),
    QForm(<< >>, { << << "name", "gt", "in" >>, PyStr("a") >> }),
    \* Q(name="a") | Q(team__name="x"), combined with a keyword
    QForm(<< Qlst("OR", << Q({ << << "name" >>, PyStr("a") >> }),
                           Q({ << << "team", "name" >>, PyStr("x") >> }) >>) >>,
          { << << "id" >>, PyInt(2) >> }) }

NextCond == \E in \in CondInputs : Select(in)

SpecCond == InitQS /\ [][NextCond]_vars

\* C3: for every condition select accepts, the number of "?" placeholders in
\* the compiled WHERE text equals the length of the accumulated parameter
\* list (first half of the claim: a parameter per placeholder).
PlaceholdersMatchParameters ==
  \A r \in Slots :
    SqlHolders(Sql(qs[r], clauses[qs[r].cl])) = Len(clauses[qs[r].cl].values)

----------------------------------------------------------------------------
(* Model objects of class Note.  An object is its _data dict and _orig_pk. *)
(* A datetime is Dt(sec, us); the text strftime("%Y-%m-%d %H:%M:%S") gives  *)
(* for it is Stamp(sec): the microseconds are not part of the text.        *)

Dt(sec, us) == [sec |-> sec, us |-> us]
IsDt(v) == DOMAIN v = {"sec", "us"}
Stamp(sec) == [stamp |-> sec]
IsStamp(v) == DOMAIN v = {"stamp"}

\* the Field objects by name: SerialKeyField() injected by ModelMeta,
\* CharField(max_length=3), the IntegerField TableMetaInfo makes for the
\* foreign key of a ManyToOne (null as the ManyToOne), TimestampField(null=True)
FieldOf(n) ==
  IF n = "id"
    THEN [name |-> "id", type |-> "SerialKeyField", null |-> TRUE,
          max_length |-> 0, is_primary_key |-> TRUE]
  ELSE IF n = "name"
    THEN [name |-> "name", type |-> "CharField", null |-> FALSE,
          max_length |-> 3, is_primary_key |-> FALSE]
  ELSE IF n \in {"post_id", "tag_id", "team_id", "code", "crew_code"}
    THEN [name |-> n, type |-> "IntegerField", null |-> n \notin {"post_id", "tag_id"},
          max_length |-> 0, is_primary_key |-> FALSE]
  ELSE [name |-> "made", type |-> "TimestampField", null |-> TRUE,
        max_length |-> 0, is_primary_key |-> FALSE]

\* Field.validate and its overrides: "" or the error raised
FieldValidate(fld, value) ==
  IF value = None THEN (IF fld.null THEN "" ELSE "ValidationError")
  ELSE IF fld.type = "CharField"
    THEN (IF fld.max_length > 0 /\ Len(value.s) > fld.max_length
            THEN "ValidationError" ELSE "")
  ELSE IF fld.type \in {"SerialKeyField", "IntegerField"}
    THEN (IF IsInt(value) THEN "" ELSE "ValidationError")
  ELSE ""

\* TimestampField.to_database; Field.to_database is the identity.  A value
\* that is already text has no strftime.
ToDatabase(fld, value) ==
  IF fld.type # "TimestampField" \/ value = None THEN [err |-> "", v |-> value]
  ELSE IF IsDt(value) THEN [err |-> "", v |-> Stamp(value.sec)]
  ELSE [err |-> "AttributeError", v |-> value]

\* TimestampField.to_object; Field.to_object is the identity
ToObject(fld, value) ==
  IF fld.type = "TimestampField" /\ IsStamp(value) THEN Dt(value.stamp, 0) ELSE value

\* keyword arguments are a set of << name, value >> pairs
KwNames(kw) == { p[1] : p \in kw }
KwGet(kw, n) == (CHOOSE p \in kw : p[1] = n)[2]

\* Model.__init__(**kw): every field starts at its default (None), every
\* keyword is set through Field.__set__, which validates it
InitData(kw) ==
  [ n \in Range(MetaFields("note")) |-> IF n \in KwNames(kw) THEN KwGet(kw, n) ELSE None ]

Built(data) == [err |-> "", obj |-> [data |-> data, orig_pk |-> data.id]]

ModelInit(kw) ==
  IF \E p \in kw : FieldValidate(FieldOf(p[1]), p[2]) # ""
    THEN [err |-> "ValidationError", obj |-> None]
    ELSE Built(InitData(kw))

\* a validate that accepts every value
ValidateNothing(data) == ""

\* Model.validate: every field's validate on the in-memory value
Validate(data) ==
  IF \E n \in DOMAIN data : FieldValidate(FieldOf(n), data[n]) # ""
    THEN "ValidationError" ELSE ""

\* Model._before_before_store(obj, "to_database", Field): every field is set
\* to its database value, until a conversion raises
StoreData(data) ==
  [err |-> IF \E n \in DOMAIN data : ToDatabase(FieldOf(n), data[n]).err # ""
             THEN "AttributeError" ELSE "",
   data |-> [ n \in DOMAIN data |-> ToDatabase(FieldOf(n), data[n]).v ]]

\* Model._factory: the row's values through to_object into cls(**h2)
Factory(row) == ModelInit({ << n, ToObject(FieldOf(n), row[n]) >> : n \in DOMAIN row })

\* "not getattr(obj, fld.name)": None and 0 are both false
Falsy(v) == v = None \/ v = PyInt(0)

\* the column names of create's INSERT: a primary key without a value is left out
CreateNames(data) ==
  SelectSeq(MetaFields("note"),
            LAMBDA n : ~(FieldOf(n).is_primary_key /\ Falsy(data[n])))

\* the rowid sqlite gives a row inserted without one
NextRowid(rows) ==
  IF rows = {} THEN 1
  ELSE (CHOOSE r \in rows : \A x \in rows : x.id.i <= r.id.i).id.i + 1

\* the row of an INSERT of the named columns, k being its rowid
InsertedRow(names, data, k) ==
  [ n \in DOMAIN data |->
      IF n = "id" THEN PyInt(k) ELSE IF n \in Range(names) THEN data[n] ELSE None ]

InsertAt(rows, names, data, k) ==
  IF \E r \in rows : r.id = PyInt(k)
    THEN [err |-> "IntegrityError", rows |-> rows, rowid |-> 0]
  ELSE IF InsertedRow(names, data, k).name = None
    THEN [err |-> "IntegrityError", rows |-> rows, rowid |-> 0]
  ELSE [err |-> "", rows |-> rows \cup { InsertedRow(names, data, k) }, rowid |-> k]

\* INSERT INTO "note" (names) VALUES (...): the UNIQUE and NOT NULL
\* constraints of the table raise IntegrityError
SqlInsert(rows, names, data) ==
  InsertAt(rows, names, data,
           IF "id" \in Range(names) /\ data.id # None THEN data.id.i ELSE NextRowid(rows))

\* UPDATE "note" SET every column WHERE "id" = key: no row has a NULL id,
\* and a row cannot take a NULL id or the id of another row
SqlUpdate(rows, data, key) ==
  IF key = None \/ ~(\E r \in rows : r.id = key)
    THEN [err |-> "", rows |-> rows]
  ELSE IF data.id = None \/ data.name = None
    THEN [err |-> "IntegrityError", rows |-> rows]
  ELSE IF data.id # key /\ \E r \in rows : r.id = data.id
    THEN [err |-> "IntegrityError", rows |-> rows]
  ELSE [err |-> "", rows |-> { r \in rows : r.id # key } \cup { data }]

\* DELETE FROM "note" WHERE "id" = pk
SqlDelete(rows, pk) == { r \in rows : pk = None \/ r.id # pk }

\* QuerySet(cls).get(pk) run against rows: r is what select did, x the
\* statement's execution
GetRun(x) ==
  IF x.err # "" THEN [err |-> x.err, out |-> None] ELSE GetOutcome(x.rows)

GetSelectedBy(r, rows) ==
  GetRun(Execute(Sql(r.q, r.c), r.c.values, [note |-> rows]))

\* Model.get(pk)
GetByPk(cls, pk, rows) ==
  GetSelectedBy(
    SelectOn(CopyQuerySet(FreshQuerySet(cls, 1), 2), FreshClauses,
             QForm(<< >>, { << << PrimaryKeyName(cls) >>, pk >> })),
    rows)

\* the key of save's UPDATE, taken from the in-memory primary key
UpdateKeyCurrent(o) == o.data.id

\* the key of save's UPDATE: values + [self._orig_pk]
UpdateKey(o) == o.orig_pk

----------------------------------------------------------------------------
(* The model-object operations: the constructor, Note.get, attribute      *)
(* assignment, Note.create, save and delete.  A call records the           *)
(* statements it issued, in order.                                         *)

DbCall(op, err, arg, stmts) ==
  [op |-> op, err |-> err, arg |-> arg, out |-> None, stmts |-> stmts]

\* the call ends: its error, the statements it issued, the object the
\* program holds afterwards, the table and the connection's last rowid
Done(op, arg, err, stmts, held, rows, rid, gone) ==
  /\ call' = DbCall(op, err, arg, stmts)
  /\ obj' = held
  /\ db' = [db EXCEPT !.note = rows]
  /\ rowid' = rid
  /\ removed' = gone
  /\ nops' = nops + 1
  /\ UNCHANGED << qsvars, sidevars >>

\* the object the call leaves held: the one it made, or on an error held
Made(op, arg, stmts, held, rows, rid, b) ==
  IF b.err # "" THEN Done(op, arg, b.err, stmts, held, rows, rid, removed)
  ELSE Done(op, arg, "", stmts, b.obj, rows, rid,
            IF op = "Model.save" THEN removed ELSE FALSE)

\* obj = Note(**kw)
ModelNew(kw) ==
  /\ nops < MaxDbOps
  /\ Made("Model", [kw |-> kw], << >>, obj, db.note, rowid, ModelInit(kw))

\* g is what QuerySet.get gave: its row goes through _factory
Got(op, arg, stmts, held, rows, rid, g) ==
  IF g.err # "" THEN Done(op, arg, g.err, stmts, held, rows, rid, removed)
  ELSE Made(op, arg, stmts, held, rows, rid, Factory(g.out[1]))

\* obj = Note.get(pk)
ModelGet(pk) ==
  /\ nops < MaxDbOps
  /\ Got("Model.get", [pk |-> pk], << "SELECT" >>, obj, db.note, rowid,
         GetByPk("note", pk, db.note))

\* obj.<name> = value, through Field.__set__
SetAttr(name, value) ==
  /\ nops < MaxDbOps
  /\ obj # None
  /\ IF FieldValidate(FieldOf(name), value) # ""
       THEN Done("setattr", [name |-> name, value |-> value], "ValidationError", << >>,
                 obj, db.note, rowid, removed)
       ELSE Done("setattr", [name |-> name, value |-> value], "", << >>,
                 [obj EXCEPT !.data[name] = value], db.note, rowid, removed)

\* Model._save_and_update_object after the statement has run: the row of
\* current_id is fetched back into the object.  With no pk in memory,
\* current_id is cur.lastrowid.
FetchBack(op, arg, stmts, held, rows, rid, ids) ==
  \E id \in ids :
    Got(op, arg, Append(stmts, "SELECT"), held, rows, rid, GetByPk("note", id, rows))

\* cur.lastrowid of the cursor that ran an UPDATE: None, or the connection's
\* last insert rowid, by the version of the sqlite3 module
UpdateLastRowIds == { None, PyInt(rowid) }

\* create after the INSERT ran as x; the object made is lost on an error
CreateInserted(arg, data, x) ==
  IF x.err # "" THEN Done("Model.create", arg, x.err, << "INSERT" >>, obj, db.note, rowid, removed)
  ELSE FetchBack("Model.create", arg, << "INSERT" >>, obj, x.rows, x.rowid,
                 IF data.id = None THEN { PyInt(x.rowid) } ELSE { data.id })

\* create once the values are converted; names were taken before that
CreateStored(arg, names, st) ==
  IF st.err # "" THEN Done("Model.create", arg, st.err, << >>, obj, db.note, rowid, removed)
  ELSE CreateInserted(arg, st.data, SqlInsert(db.note, names, st.data))

\* create once obj.validate() has run
CreateValidated(arg, data, verr) ==
  IF verr # "" THEN Done("Model.create", arg, verr, << >>, obj, db.note, rowid, removed)
  ELSE CreateStored(arg, CreateNames(data), StoreData(data))

\* create once obj = cls(**kw) has run
CreateBuilt(arg, b) ==
  IF b.err # "" THEN Done("Model.create", arg, b.err, << >>, obj, db.note, rowid, removed)
  ELSE CreateValidated(arg, b.obj.data, Validate(b.obj.data))

\* obj = Note.create(**kw)
ModelCreate(kw) ==
  /\ nops < MaxDbOps
  /\ CreateBuilt([kw |-> kw], ModelInit(kw))

\* what save was called on
SaveArg == [orig_pk |-> obj.orig_pk, pk |-> obj.data.id]

\* save after the UPDATE ran as x: the object keeps the converted values
SaveUpdated(data, x) ==
  IF x.err # ""
    THEN Done("Model.save", SaveArg, x.err, << "UPDATE" >>, [obj EXCEPT !.data = data],
              db.note, rowid, removed)
  ELSE FetchBack("Model.save", SaveArg, << "UPDATE" >>, [obj EXCEPT !.data = data],
                 x.rows, rowid,
                 IF data.id = None THEN UpdateLastRowIds ELSE { data.id })

SaveStored(st) ==
  IF st.err # "" THEN Done("Model.save", SaveArg, st.err, << >>, obj, db.note, rowid, removed)
  ELSE SaveUpdated(st.data, SqlUpdate(db.note, st.data, UpdateKey(obj)))

SaveValidated(verr) ==
  IF verr # "" THEN Done("Model.save", SaveArg, verr, << >>, obj, db.note, rowid, removed)
  ELSE SaveStored(StoreData(obj.data))

\* obj.save()
ModelSave ==
  /\ nops < MaxDbOps
  /\ obj # None
  /\ SaveValidated(Validate(obj.data))

ModelDeleted(rows) ==
  Done("Model.delete", [pk |-> obj.data.id], "", << "DELETE" >>, obj, rows, rowid,
       removed \/ rows # db.note)

\* obj.delete()
ModelDelete ==
  /\ nops < MaxDbOps
  /\ obj # None
  /\ ModelDeleted(SqlDelete(db.note, obj.data.id))

Note(id, name, made) == [id |-> PyInt(id), name |-> PyStr(name), made |-> made]

\* the tables a run may start from
InitialNotes ==
  { {}, { Note(1, "a", Stamp(1)) }, { Note(1, "a", None), Note(2, "b", Stamp(2)) } }

InitDB ==
  /\ FreshProgram
  /\ \E rows \in InitialNotes : db = [member |-> {}, team |-> {}, note |-> rows]

NewInputs == { {}, { << "name", PyStr("a") >> } }

CreateInputs ==
  { {},
    { << "name", PyStr("a") >> },
    { << "name", PyStr("b") >>, << "made", Dt(3, 5) >> },
    { << "name", PyStr("long") >> },
    { << "id", PyInt(0) >>, << "name", PyStr("b") >> },
    { << "id", PyInt(2) >>, << "name", PyStr("a") >> } }

GetPks == { PyInt(1), PyInt(2) }

SetAttrInputs ==
  { << "id", PyInt(2) >>, << "id", None >>, << "name", PyStr("b") >>,
    << "name", None >>, << "made", Dt(4, 5) >> }

NextDB ==
  \/ \E kw \in NewInputs : ModelNew(kw)
  \/ \E pk \in GetPks : ModelGet(pk)
  \/ \E in \in SetAttrInputs : SetAttr(in[1], in[2])
  \/ \E kw \in CreateInputs : ModelCreate(kw)
  \/ ModelSave
  \/ ModelDelete

SpecDB == InitDB /\ [][NextDB]_vars

----------------------------------------------------------------------------
(* Properties of the model-object specification                            *)

\* a value a field of Note does not accept: null where the field is not
\* nullable, text longer than the field's max_length, a key that is no integer
Unacceptable(n, v) ==
  \/ v = None /\ n = "name"
  \/ v # None /\ n = "name" /\ Len(v.s) > 3
  \/ v # None /\ n = "id" /\ ~IsInt(v)

\* from_storage(to_storage(v)) for field n
RoundTrip(n, v) == ToObject(FieldOf(n), ToDatabase(FieldOf(n), v).v)

\* the keywords give every field an acceptable value, and a key, if they
\* give one, that no row has yet
CreatableKw(kw) ==
  /\ \A n \in Range(MetaFields("note")) :
        ~Unacceptable(n, IF n \in KwNames(kw) THEN KwGet(kw, n) ELSE None)
  /\ "id" \in KwNames(kw) => \A r \in db.note : r.id # KwGet(kw, "id")

\* the object get(pk) gives from rows has the fields data
GetGives(g, data) == g.err = "" /\ Factory(g.out[1]).obj.data = data

\* C6: create with values that pass validation returns an object with a
\* bound primary key whose fields are the values after the storage round
\* trip, and get(that key) gives an object with the same fields.
CreateThenGetRoundTrip ==
  [][ call'.op = "Model.create" /\ CreatableKw(call'.arg.kw) =>
        /\ call'.err = ""
        /\ obj'.data.id # None
        /\ \A p \in call'.arg.kw : p[1] # "id" => obj'.data[p[1]] = RoundTrip(p[1], p[2])
        /\ GetGives(GetByPk("note", obj'.data.id, db'.note), obj'.data) ]_vars

(* C29: create given a primary key k, 0 included, that no row has yet      *)
(* puts the key into its INSERT, inserts the row with key k and returns    *)
(* the object with pk = k.                                                 *)
ExplicitKeyInserted ==
  [][ /\ call'.op = "Model.create"
      /\ CreatableKw(call'.arg.kw)
      /\ "id" \in KwNames(call'.arg.kw)
      /\ IsInt(KwGet(call'.arg.kw, "id"))
      /\ ~(\E r \in db.note : r.id = KwGet(call'.arg.kw, "id"))
      => /\ "id" \in Range(CreateNames(InitData(call'.arg.kw)))
         /\ call'.err = ""
         /\ obj'.data.id = KwGet(call'.arg.kw, "id")
         /\ \E r \in db'.note \ db.note : r.id = KwGet(call'.arg.kw, "id") ]_vars

\* the in-memory values create validates: those of cls(**kw)
CreateData(kw) == InitData(kw)

\* C7: create and save on in-memory values of which one fails its field's
\* validate raise ValidationError without having issued a statement, and
\* leave the table as it was.
ValidationBeforeWrite ==
  [][ \/ call'.op = "Model.create"
         /\ \E n \in Range(MetaFields("note")) : Unacceptable(n, CreateData(call'.arg.kw)[n])
      \/ call'.op = "Model.save"
         /\ \E n \in Range(MetaFields("note")) : Unacceptable(n, obj.data[n])
      => /\ call'.err = "ValidationError"
         /\ call'.stmts = << >>
         /\ db' = db ]_vars

\* save() on an object whose name is still None was refused, and so was a
\* create before it: nothing was written
SaveRefused ==
  /\ call.op = "Model.save" /\ call.err = "ValidationError"
  /\ obj # None /\ obj.data.name = None
  /\ call.stmts = << >>

\* the row save writes: the object's values in database form
StoredRow(o) == StoreData(o.data).data

\* the rows keyed by the object's _orig_pk
OrigRows(o, rows) == { r \in rows : o.orig_pk # None /\ r.id = o.orig_pk }

\* C8: save() changes no row but the one keyed by _orig_pk, which takes the
\* object's in-memory values, the primary key included; after a successful
\* create or save, _orig_pk is the object's pk and the row of that pk holds
\* the object's fields.
SaveKeyedByOrigPk ==
  [][ /\ call'.op = "Model.save" =>
           \/ db'.note = db.note /\ (call'.err = "" => OrigRows(obj, db.note) = {})
           \/ /\ OrigRows(obj, db.note) # {}
              /\ db'.note = (db.note \ OrigRows(obj, db.note)) \cup { StoredRow(obj) }
      /\ call'.op \in {"Model.create", "Model.save"} /\ call'.err = "" =>
           /\ obj'.orig_pk = obj'.data.id
           /\ \E r \in db'.note : r.id = obj'.data.id /\ Factory(r).obj.data = obj'.data
    ]_vars

\* an object loaded under key 1 was given key 2 and saved: its row is now
\* the row of key 2, and no row has key 1
SavedUnderNewKey ==
  /\ call.op = "Model.save" /\ call.err = ""
  /\ call.arg.orig_pk = PyInt(1) /\ call.arg.pk = PyInt(2)
  /\ obj.orig_pk = PyInt(2)
  /\ \E r \in db.note : r.id = PyInt(2) /\ r.name = obj.data.name
  /\ \A r \in db.note : r.id # PyInt(1)

\* C9: once delete() has removed the object's row, every further save() or
\* delete() on that object ends in an error.
FlaggedAfterDelete ==
  [][ call'.op \in {"Model.save", "Model.delete"} /\ removed => call'.err # "" ]_vars

----------------------------------------------------------------------------
(* Relationships.  Keyword arguments of a call are a dict: the list of its *)
(* << name, value >> items in insertion order.  An object given as a value *)
(* is Obj(model, pk).                                                      *)

\* kw[name] = value: a name already in the dict keeps its place
KwPut(kws, name, value) ==
  IF \E k \in DOMAIN kws : kws[k][1] = name
    THEN [ k \in DOMAIN kws |-> IF kws[k][1] = name THEN << name, value >> ELSE kws[k] ]
    ELSE Append(kws, << name, value >>)

\* bool(value): None, 0, "" and an empty list are false, a model object true
Truthy(v) ==
  ~(v = None \/ v = PyInt(0) \/ v = PyStr("") \/ v = List(<< >>))

\* Field.__set__ on _data: the value is validated, then stored
FieldSet(data, name, value) ==
  IF FieldValidate(FieldOf(name), value) # ""
    THEN [err |-> "ValidationError", data |-> data]
    ELSE [err |-> "", data |-> [data EXCEPT ![name] = value]]

\* a model object with the attributes attrs besides its key
ObjWith(mdl, pk, attrs) == [model |-> mdl, pk |-> pk, attrs |-> attrs]
IsObject(v) == "model" \in DOMAIN v

\* getattr(value, key) of a model object
ObjAttr(value, key) ==
  IF key = PrimaryKeyName(value.model) THEN value.pk ELSE value.attrs[key]

\* ManyToOne.__set__(owner, value): only a true value is checked for its
\* type; then v = getattr(value, self.ref_key) and setattr(owner, self.fkey, v)
ManyToOneSet(rel, data, value) ==
  IF Truthy(value) /\ (~IsObject(value) \/ value.model # rel.model)
    THEN [err |-> "TypeError", data |-> data]
  ELSE IF value = None THEN FieldSet(data, rel.fkey, None)
  ELSE IF ~IsObject(value) THEN [err |-> "AttributeError", data |-> data]
  ELSE FieldSet(data, rel.fkey, ObjAttr(value, rel.ref_key))

\* setattr(self, k, kw[k]) in Model.__init__, attr being cls.__dict__[k]
InitSet(mdl, data, k, v, attr) ==
  IF attr.kind = "none" THEN [err |-> "KeyError", data |-> data]
  ELSE IF attr.kind = "m2o" THEN ManyToOneSet(attr, data, v)
  ELSE IF attr.kind = "field" THEN FieldSet(data, k, v)
  ELSE [err |-> "ValueError", data |-> data]

\* Model.__init__(**kw) of model mdl: the keywords are set in dict order
RECURSIVE InitAll(_, _, _)

InitNext(mdl, r, rest) == IF r.err # "" THEN r ELSE InitAll(mdl, r.data, rest)

InitAll(mdl, data, kws) ==
  IF kws = << >> THEN [err |-> "", data |-> data]
  ELSE InitNext(mdl,
         InitSet(mdl, data, Head(kws)[1], Head(kws)[2], ClassDict(mdl, Head(kws)[1])),
         Tail(kws))

\* self._data[fld.name] = fld.default for every field
DefaultData(mdl) == [ n \in Range(MetaFields(mdl)) |-> None ]

ModelInitOf(mdl, kws) == InitAll(mdl, DefaultData(mdl), kws)

\* the foreign keys of the tables: column, referenced table
ForeignKeys(mdl) ==
  IF mdl = "posttaglink" THEN { << "post_id", "post" >>, << "tag_id", "tag" >> }
  ELSE IF mdl = "member" THEN { << "team_id", "team" >> }
  ELSE {}

\* PRAGMA foreign_keys = ON: a foreign key is null or the id of a row
ForeignKeysHold(mdl, row, tables) ==
  \A fk \in ForeignKeys(mdl) :
    row[fk[1]] = None \/ \E r \in tables[fk[2]] : r.id = row[fk[1]]

\* the INSERT of create into table mdl, k being the rowid the row takes
InsertInto(mdl, data, tables, k) ==
  IF \E r \in tables[mdl] : r.id = PyInt(k)
    THEN [err |-> "IntegrityError", db |-> tables, rowid |-> 0]
  ELSE IF ~ForeignKeysHold(mdl, data, tables)
    THEN [err |-> "IntegrityError", db |-> tables, rowid |-> 0]
  ELSE [err |-> "", db |-> [tables EXCEPT ![mdl] = @ \cup { [data EXCEPT !.id = PyInt(k)] }],
        rowid |-> k]

\* cls.get(pk) against the tables
GetSelectedIn(r, tables) == GetRun(Execute(Sql(r.q, r.c), r.c.values, tables))

GetByPkIn(cls, pk, tables) ==
  GetSelectedIn(
    SelectOn(CopyQuerySet(FreshQuerySet(cls, 1), 2), FreshClauses,
             QForm(<< >>, { << << PrimaryKeyName(cls) >>, pk >> })),
    tables)

\* _save_and_update_object after the INSERT ran as x: cls.get(current_id),
\* current_id being cur.lastrowid when the object has no key
CreateFetched(mdl, x, g) ==
  IF g.err # "" THEN [err |-> g.err, db |-> x.db, out |-> None]
  ELSE [err |-> "", db |-> x.db, out |-> g.out[1]]

CreateRan(mdl, data, x) ==
  IF x.err # "" THEN [err |-> x.err, db |-> x.db, out |-> None]
  ELSE CreateFetched(mdl, x,
         GetByPkIn(mdl, IF data.id = None THEN PyInt(x.rowid) ELSE data.id, x.db))

\* cls.create(**kw) once cls(**kw) gave b: validate, INSERT (the primary
\* key left out when it is false), fetch the row back
CreateChecked(mdl, b, tables) ==
  IF b.err # "" THEN [err |-> b.err, db |-> tables, out |-> None]
  ELSE IF Validate(b.data) # "" THEN [err |-> "ValidationError", db |-> tables, out |-> None]
  ELSE CreateRan(mdl, b.data,
         InsertInto(mdl, b.data, tables,
                    IF Falsy(b.data.id) THEN NextRowid(tables[mdl]) ELSE b.data.id.i))

\* cls.create(**kw) for a model of the relationship schema
CreateIn(mdl, kws, tables) == CreateChecked(mdl, ModelInitOf(mdl, kws), tables)

----------------------------------------------------------------------------
(* Many-to-many: Post.tags is _ManyToManyBase.__get__, giving a            *)
(* ManyToManySet over Tag linked through PostTagLink.                      *)

\* ManyToManySet.__init__: self.joins[reftbl], two INNER JOINs whose
\* unqualified link columns sqlite resolves to the link table
ManyToManyJoins(cls, ref, lnk) ==
  << [tbl |-> lnk, as |-> << lnk >>,
      lhs |-> << << cls >>, PrimaryKeyName(cls) >>, rcol |-> cls \o "_id"],
     [tbl |-> ref, as |-> << ref >>,
      lhs |-> << << lnk >>, ref \o "_id" >>, rcol |-> PrimaryKeyName(ref)] >>

\* _ManyToManyBase.__get__ then ManyToManySet.__init__: r is what
\* cls.select('"<cls>"."<pk>"=?', [owner.pk]) did to its new query-set
ManyToManySetOf(r, ref, lnk) ==
  [q |-> [CopyQuerySet(r.q, 2) EXCEPT
            !.select_fields = << [alias |-> << ref >>, col |-> "*", mdl |-> ref] >>,
            !.joins = JoinsPut(@, << ref >>, ManyToManyJoins(r.q.cls, ref, lnk))],
   c |-> r.c]

\* owner.tags for a Post owner with key pk
PostTags(pk) ==
  ManyToManySetOf(
    SelectOn(CopyQuerySet(FreshQuerySet("post", 1), 2), FreshClauses,
             SqlForm(<< PrimaryKeyName("post"), "=", "?" >>, << List(<< pk >>) >>)),
    "tag", "posttaglink")

\* iterating a query-set: the keys of the objects it yields, in order
IterKeys(x) == IF x.err # "" THEN << >> ELSE [ k \in DOMAIN x.rows |-> x.rows[k][1].id ]

Iterated(s, tables) == IterKeys(Execute(Sql(s.q, s.c), s.c.values, tables))

\* [t.pk for t in owner.tags]
TagsOf(pk, tables) == Iterated(PostTags(pk), tables)

\* how many times key x is in the list
Times(xs, x) == Cardinality({ k \in DOMAIN xs : xs[k] = x })

\* a call on the collection ends
RelDone(op, arg, err, out, tables) ==
  /\ call' = Call(op, err, arg, out)
  /\ db' = tables
  /\ nops' = nops + 1
  /\ UNCHANGED << qsvars, modelvars, sidevars >>

\* the keywords of the link row: { "<cls>_id": parent.pk, "<ref>_id": x.pk }
LinkKw(p, x) == << << "post_id", p.pk >>, << "tag_id", x.pk >> >>

\* append(x) once self.lnk.create(**h) ran as c: it returns x
AppendLinked(arg, x, c) ==
  IF c.err # "" THEN RelDone("append", arg, c.err, None, c.db)
  ELSE RelDone("append", arg, "", x, c.db)

\* append(x) on p.tags: an object of another class is refused
AppendObject(arg, p, x, tables) ==
  IF x.model # "tag" THEN RelDone("append", arg, "TypeError", None, tables)
  ELSE AppendLinked(arg, x, CreateIn("posttaglink", LinkKw(p, x), tables))

\* p.tags.append(x)
ManyToManyAppend(p, x) ==
  /\ nops < MaxRelOps
  /\ AppendObject([p |-> p, x |-> x], p, x, db)

\* append(**kw) once self.ref.create(**kw) ran as c: self.append(obj)
AppendCreated(arg, p, c) ==
  IF c.err # "" THEN RelDone("append", arg, c.err, None, c.db)
  ELSE AppendObject(arg, p, Obj("tag", c.out.id), c.db)

\* p.tags.append(**kw)
ManyToManyAppendNew(p, kws) ==
  /\ nops < MaxRelOps
  /\ AppendCreated([p |-> p, kw |-> kws], p, CreateIn("tag", kws, db))

\* self.lnk.select(**h).delete(), r being what select did
LinkDeleted(op, arg, out, x) == RelDone(op, arg, x.err, out, x.db)

LinkDelete(op, arg, out, r) ==
  IF r.err # "" THEN RelDone(op, arg, r.err, None, db)
  ELSE LinkDeleted(op, arg, out,
         Execute(Sql([r.q EXCEPT !.wrappers = Append(@, DeleteWrapper("posttaglink"))], r.c),
                 r.c.values, db))

LinkSelect(kw) ==
  SelectOn(CopyQuerySet(FreshQuerySet("posttaglink", 1), 2), FreshClauses, QForm(<< >>, kw))

\* p.tags.pop(x)
ManyToManyPop(p, x) ==
  /\ nops < MaxRelOps
  /\ LinkDelete("pop", [p |-> p, x |-> x], x,
                LinkSelect({ << << "post_id" >>, p.pk >>, << << "tag_id" >>, x.pk >> }))

\* p.tags.clear()
ManyToManyClear(p) ==
  /\ nops < MaxRelOps
  /\ LinkDelete("clear", [p |-> p], None, LinkSelect({ << << "post_id" >>, p.pk >> }))

Named(id, name) == [id |-> PyInt(id), name |-> PyStr(name)]
Link(id, post_id, tag_id) == [id |-> PyInt(id), post_id |-> PyInt(post_id), tag_id |-> PyInt(tag_id)]

\* two posts and two tags are stored, linked or not
InitialLinks == { {}, { Link(1, 1, 1) }, { Link(1, 2, 1), Link(2, 2, 2) } }

InitM2M ==
  /\ FreshProgram
  /\ \E links \in InitialLinks :
       db = [post |-> { Named(1, "a"), Named(2, "b") },
             tag |-> { Named(1, "x"), Named(2, "y") },
             posttaglink |-> links]

\* the parents: stored posts, and a post that was never saved
Parents == { Obj("post", PyInt(1)), Obj("post", PyInt(2)), Obj("post", None) }

\* the objects handed to append and pop
Items == { Obj("tag", PyInt(1)), Obj("tag", PyInt(2)), Obj("tag", None), Obj("post", PyInt(1)) }

AppendKws == { << << "name", PyStr("a") >> >>, << << "name", PyStr("long") >> >>, << >> }

NextM2M ==
  \/ \E p \in Parents, x \in Items : ManyToManyAppend(p, x)
  \/ \E p \in Parents, kws \in AppendKws : ManyToManyAppendNew(p, kws)
  \/ \E p \in Parents, x \in Items : ManyToManyPop(p, x)
  \/ \E p \in Parents : ManyToManyClear(p)

SpecM2M == InitM2M /\ [][NextM2M]_vars

\* C11: after a successful append(x) on p's collection, iterating the
\* collection yields x exactly once; after pop(x) it does not yield x;
\* after clear() it yields nothing.
AppendPopClear ==
  [][ call'.err = "" =>
        /\ call'.op = "append" => Times(TagsOf(call'.arg.p.pk, db'), call'.out.pk) = 1
        /\ call'.op = "pop" => Times(TagsOf(call'.arg.p.pk, db'), call'.arg.x.pk) = 0
        /\ call'.op = "clear" => TagsOf(call'.arg.p.pk, db') = << >> ]_vars

----------------------------------------------------------------------------
(* Many-to-one: Member.team with its reverse accessor Team.members, and    *)
(* Sailor.crew, read and assigned on the Sailor object the program holds.  *)

\* _ManyToOne_Rev.__get__ then ManyToOneRevSet.__init__: r is what
\* self.rev.select("<rev_fkey> = ?", [getattr(owner, ref_key)]) did
RevSetOf(r) == [q |-> CopyQuerySet(r.q, 2), c |-> r.c]

\* owner.members for a Team owner with key pk
TeamMembers(pk) ==
  RevSetOf(SelectOn(CopyQuerySet(FreshQuerySet("member", 1), 2), FreshClauses,
                    SqlForm(<< "team_id", "=", "?" >>, << List(<< pk >>) >>)))

\* [m.pk for m in owner.members]
MembersOf(pk, tables) == Iterated(TeamMembers(pk), tables)

\* append(**kw) once self.cls.create(**kw) ran as c
RevAppended(arg, c) == RelDone("rev.append", arg, c.err, c.out, c.db)

\* p.members.append(**kw): kw[self.cls_fkey] = getattr(self.parent,
\* self.parent_key), then self.cls.create(**kw)
RevAppend(p, kws) ==
  /\ nops < MaxRelOps
  /\ RevAppended([p |-> p, kw |-> kws], CreateIn("member", KwPut(kws, "team_id", p.pk), db))

\* a call on the object held ends: the statements it issued, the object
OwnerDone(op, arg, err, out, stmts, held) ==
  /\ call' = [op |-> op, err |-> err, arg |-> arg, out |-> out, stmts |-> stmts]
  /\ obj' = held
  /\ nops' = nops + 1
  /\ UNCHANGED << qsvars, db, rowid, removed, sidevars >>

\* cls._factory(cur, row): the row's values through cls(**h2)
FactoryOf(mdl, row) ==
  ModelInitOf(mdl, [ k \in DOMAIN MetaFields(mdl) |->
                       << MetaFields(mdl)[k], row[MetaFields(mdl)[k]] >> ])

Loaded(arg, g) ==
  IF g.err # "" THEN OwnerDone("get", arg, g.err, None, << "SELECT" >>, obj)
  ELSE OwnerDone("get", arg, "", None, << "SELECT" >>,
                 [data |-> FactoryOf("sailor", g.out[1]).data, orig_pk |-> g.out[1].id])

\* obj = Sailor.get(pk)
SailorGet(pk) ==
  /\ nops < MaxRelOps
  /\ Loaded([pk |-> pk], GetByPkIn("sailor", pk, db))

Assigned(value, r) ==
  OwnerDone("assign", [value |-> value], r.err, None, << >>, [obj EXCEPT !.data = r.data])

\* obj.crew = value
CrewAssign(value) ==
  /\ nops < MaxRelOps
  /\ obj # None
  /\ Assigned(value, ManyToOneSet(ClassDict("sailor", "crew"), obj.data, value))

\* the first row alone, whatever follows it
FetchedFirst(mdl, hits) ==
  IF hits = << >> THEN [err |-> "TypeError", out |-> None]
  ELSE [err |-> "", out |-> FactoryOf(mdl, hits[1]).data]

\* row = cur.fetchone(); a second row raises; self.ref._factory(cur, row)
Fetched(mdl, hits) ==
  IF Len(hits) > 1 THEN [err |-> "NotUniqueForeignKey", out |-> None]
  ELSE IF hits = << >> THEN [err |-> "TypeError", out |-> None]
  ELSE [err |-> "", out |-> FactoryOf(mdl, hits[1]).data]

ReadDone(f, stmts) == OwnerDone("read", [fkey |-> obj.data.crew_code], f.err, f.out, stmts, obj)

\* ManyToOne.__get__(owner, cls): None for a null foreign key, else
\* SELECT * FROM "<reftbl>" WHERE "<ref_key>" = ? with the foreign key
ManyToOneGet(rel, data, tables) ==
  IF data[rel.fkey] = None THEN ReadDone([err |-> "", out |-> None], << >>)
  ELSE ReadDone(Fetched(rel.model, Matches(tables[rel.model], rel.ref_key, data[rel.fkey])),
                << "SELECT" >>)

\* obj.crew
CrewRead ==
  /\ nops < MaxRelOps
  /\ obj # None
  /\ ManyToOneGet(ClassDict("sailor", "crew"), obj.data, db)

Crew(id, name, code) == [id |-> PyInt(id), name |-> PyStr(name), code |-> code]
Sailor(id, name, crew_code) == [id |-> PyInt(id), name |-> PyStr(name), crew_code |-> crew_code]

\* crews that share a code, and sailors of one crew, of two, of none
InitialCrews ==
  { { Crew(1, "x", PyInt(7)), Crew(2, "y", PyInt(7)), Crew(3, "a", PyInt(8)) },
    { Crew(1, "x", PyInt(7)), Crew(2, "y", None) } }

InitRel ==
  /\ FreshProgram
  /\ \E crews \in InitialCrews :
       db = [team |-> { Named(1, "x"), Named(2, "y") },
             member |-> {},
             crew |-> crews,
             sailor |-> { Sailor(1, "a", PyInt(7)), Sailor(2, "b", PyInt(8)),
                          Sailor(3, "a", None) }]

TeamParents == { Obj("team", PyInt(1)), Obj("team", PyInt(2)) }

RevAppendKws ==
  { << << "name", PyStr("a") >> >>,
    << << "name", PyStr("b") >>, << "team_id", PyInt(2) >> >>,
    << << "name", PyStr("a") >>, << "team", Obj("team", PyInt(2)) >> >>,
    << << "team_id", PyInt(2) >>, << "name", PyStr("b") >>, << "team", Obj("team", PyInt(2)) >> >>,
    << >> }

SailorPks == { PyInt(1), PyInt(2), PyInt(3) }

\* what is assigned: crews stored or not, null, an object of another class,
\* and values that are no objects
AssignInputs ==
  { None,
    ObjWith("crew", PyInt(1), [code |-> PyInt(7)]),
    ObjWith("crew", PyInt(3), [code |-> PyInt(8)]),
    ObjWith("crew", None, [code |-> None]),
    Obj("team", PyInt(1)),
    PyInt(0), PyInt(5), PyStr(""), PyStr("x"), List(<< >>) }

NextRel ==
  \/ \E p \in TeamParents, kws \in RevAppendKws : RevAppend(p, kws)
  \/ \E pk \in SailorPks : SailorGet(pk)
  \/ \E v \in AssignInputs : CrewAssign(v)
  \/ CrewRead

SpecRel == InitRel /\ [][NextRel]_vars

\* C12: an append on p's reverse accessor that succeeds stores one new child
\* row whose foreign key is p's key; p's accessor then yields that child
\* besides those it yielded before, and no other parent's accessor yields it.
RevAppendScoped ==
  [][ call'.op = "rev.append" /\ call'.err = "" =>
        /\ call'.out.team_id = call'.arg.p.pk
        /\ call'.out \notin db.member
        /\ db'.member = db.member \cup { call'.out }
        /\ Range(MembersOf(call'.arg.p.pk, db'))
             = Range(MembersOf(call'.arg.p.pk, db)) \cup { call'.out.id }
        /\ Times(MembersOf(call'.arg.p.pk, db'), call'.out.id) = 1
        /\ \A q \in TeamParents \ { call'.arg.p } :
             Times(MembersOf(q.pk, db'), call'.out.id) = 0 ]_vars

\* the rows of the referenced table whose reference key is v
RefRows(v, tables) == { r \in tables.crew : v # None /\ r.code = v }

\* C14: reading the many-to-one attribute gives None without a statement
\* when the owner's foreign key is null, the referenced object when exactly
\* one row of the referenced table has the key, and raises
\* NotUniqueForeignKey when more than one row has it.
ReadByReference ==
  [][ call'.op = "read" =>
        /\ obj.data.crew_code = None =>
             call'.err = "" /\ call'.out = None /\ call'.stmts = << >>
        /\ Cardinality(RefRows(obj.data.crew_code, db)) = 1 =>
             call'.err = "" /\ { call'.out } = RefRows(obj.data.crew_code, db)
        /\ Cardinality(RefRows(obj.data.crew_code, db)) > 1 =>
             call'.err = "NotUniqueForeignKey" ]_vars

\* a sailor whose crew code two crews share was read
NotUniqueRead ==
  /\ call.op = "read" /\ call.err = "NotUniqueForeignKey"
  /\ Cardinality(RefRows(call.arg.fkey, db)) = 2

\* an instance of the referenced class
IsCrew(v) == IsObject(v) /\ v.model = "crew"

\* C15: assigning a non-null value that is no instance of the referenced
\* class raises TypeError and leaves the foreign key as it was; assigning an
\* instance stores its reference-key value; assigning null stores null.
AssignChecked ==
  [][ call'.op = "assign" =>
        /\ call'.arg.value # None /\ ~IsCrew(call'.arg.value) =>
             call'.err = "TypeError" /\ obj' = obj
        /\ IsCrew(call'.arg.value) =>
             call'.err = "" /\ obj'.data.crew_code = call'.arg.value.attrs.code
        /\ call'.arg.value = None =>
             call'.err = "" /\ obj'.data.crew_code = None ]_vars

----------------------------------------------------------------------------
(* Class definition: what a class statement with metaclass ModelMeta does. *)
(* Field objects and class objects live in heaps (fields in module-level   *)
(* creation order, classes in creation order) and are named by their       *)
(* position; a class is bound in the module when its statement is over.    *)
(* Class names are lower case, so __name__.lower() is the name.            *)
(* The definition state st is the record of the four heaps.                *)

\* a reference given as a name, or as a class object
RefStr(name) == [str |-> name]
RefCls(cid) == [cid |-> cid]
IsRefStr(r) == DOMAIN r = {"str"}
IsRefCls(r) == DOMAIN r = {"cid"}

\* Field.__init__ / ManyToOne.__init__ / ManyToMany.__init__
FieldObj(type, pk, null, ref, on) ==
  [type |-> type, is_primary_key |-> pk, null |-> null, name |-> "", ref |-> ref,
   fkey |-> "", related_name |-> "", on_delete |-> on, on_update |-> on,
   is_user_defined |-> FALSE, lnk |-> 0, cls |-> 0]

IsField(f) == f.type # "ManyToMany"

\* _pre_field_order.append(self): once in Field.__init__, once more in
\* ManyToOne.__init__; a ManyToMany is a property, not a Field
AddField(st, f) ==
  [st EXCEPT
     !.fields = Append(@, f),
     !.order = IF f.type = "ManyToMany" THEN @
               ELSE IF f.type = "ManyToOne"
                 THEN @ \o << Len(st.fields) + 1, Len(st.fields) + 1 >>
               ELSE Append(@, Len(st.fields) + 1)]

\* the class bound in the module under name
Bound(st, name) == \E c \in DOMAIN st.classes : st.classes[c].bound /\ st.classes[c].name = name
BoundId(st, name) == CHOOSE c \in DOMAIN st.classes : st.classes[c].bound /\ st.classes[c].name = name

\* d[key] = val for a dict kept as the list of its items
DictPut(d, key, val) ==
  IF \E k \in DOMAIN d : d[k].k = key
    THEN [ k \in DOMAIN d |-> IF d[k].k = key THEN [k |-> key, v |-> val] ELSE d[k] ]
    ELSE Append(d, [k |-> key, v |-> val])

DictHas(d, key) == \E k \in DOMAIN d : d[k].k = key
DictAt(d, key) == d[CHOOSE k \in DOMAIN d : d[k].k = key].v
DictPop(d, key) == SelectSeq(d, LAMBDA e : e.k # key)

\* the class body: every declaration makes its Field object, in order
RECURSIVE EvalBody(_, _, _)
EvalBody(st, decls, dict) ==
  IF decls = << >> THEN [st |-> st, dict |-> dict]
  ELSE EvalBody(
         AddField(st, FieldObj(Head(decls).type, Head(decls).pk, Head(decls).null,
                               IF Head(decls).ref = None \/ IsRefStr(Head(decls).ref)
                                 THEN Head(decls).ref
                                 ELSE RefCls(BoundId(st, Head(decls).ref.cls)), "")),
         Tail(decls),
         DictPut(dict, Head(decls).k, Len(st.fields) + 1))

\* ModelMeta.__new__: the class object, its _meta.initial_field being the
\* Field objects of the class dict
NewClass(st, name, dict) ==
  [st EXCEPT
     !.classes = Append(@,
       [name |-> name, bound |-> FALSE, dict |-> dict,
        initial_field |-> SelectSeq(dict, LAMBDA e : IsField(st.fields[e.v])),
        attrs |-> << >>])]

\* setattr(self.ref, self.related_name, _ManyToOne_Rev(self.ref,
\* self._ref_key, rev_cls, self.fkey)), f being the ManyToOne after its
\* name, fkey and related_name are set
RegisterRev(st, oid, rev, f) ==
  [st EXCEPT
     !.fields[oid] = f,
     !.classes[f.ref.cid].attrs =
        DictPut(@, f.related_name, [kind |-> "rev", ref |-> f.ref.cid, rev |-> rev,
                                    rev_fkey |-> f.fkey])]

Registered(st, oid, rev, fld_name) ==
  RegisterRev(st, oid, rev,
    [st.fields[oid] EXCEPT
       !.name = fld_name,
       !.fkey = IF @ = "" THEN fld_name \o "_id" ELSE @,
       !.related_name = IF @ = "" THEN st.classes[rev].name \o "_set" ELSE @])

\* ManyToOne._called_in_modelmeta_init(rev_cls, fld_name): a name that the
\* module does not have yet suspends the relationship under that name
CalledManyToOne(st, oid, rev, fld_name) ==
  IF IsRefStr(st.fields[oid].ref)
    THEN IF ~Bound(st, st.fields[oid].ref.str)
           THEN [st EXCEPT !.suspended =
                   DictPut(@, st.fields[oid].ref.str,
                           [oid |-> oid, rev |-> rev, fld_name |-> fld_name])]
           ELSE Registered(
                  [st EXCEPT !.fields[oid].ref = RefCls(BoundId(st, st.fields[oid].ref.str))],
                  oid, rev, fld_name)
    ELSE Registered(st, oid, rev, fld_name)

\* the suspended relationship p is taken up for class cid
ResumeOne(st, cid, p) ==
  CalledManyToOne(
    [st EXCEPT !.suspended = DictPop(@, st.classes[cid].name),
               !.fields[p.oid].ref = RefCls(cid)],
    p.oid, p.rev, p.fld_name)

\* ModelMeta.__init__: "if cls.__name__ in ModelMeta.suspended: ..."
Resume(st, cid) ==
  IF DictHas(st.suspended, st.classes[cid].name)
    THEN ResumeOne(st, cid, DictAt(st.suspended, st.classes[cid].name))
    ELSE st

\* the new key put last in the field order
InjectedLast(order, oid) == Append(order, oid)

\* _pre_field_order.pop(_pre_field_order.index(fld)); .insert(0, fld)
InjectedOrder(order, oid) == << oid >> \o order

\* ModelMeta.__init__ without a primary key in the class dict: fld =
\* SerialKeyField(); cls.id = fld; dict["_meta"].initial_field["id"] = fld
InjectKey(st, cid) ==
  [st EXCEPT
     !.fields = Append(@, FieldObj("SerialKeyField", TRUE, TRUE, None, "")),
     !.order = InjectedOrder(@, Len(st.fields) + 1),
     !.classes[cid].attrs = DictPut(@, "id", [kind |-> "field", oid |-> Len(st.fields) + 1]),
     !.classes[cid].initial_field = DictPut(@, "id", Len(st.fields) + 1)]

RECURSIVE MetaInit(_, _)
RECURSIVE InitDict(_, _, _, _)

\* type(name, (Model,), h) twice: the second class is the link class
LinkClasses(st, name, h) ==
  MetaInit(NewClass(MetaInit(NewClass(st, name, h), Len(st.classes) + 1), name, h),
           Len(st.classes) + 2)

\* a ManyToOne that names no action for delete and update
PlainLinkField(cid) == FieldObj("ManyToOne", FALSE, FALSE, RefCls(cid), "")

\* ManyToOne(cls, on_delete="CASCADE", on_update="CASCADE")
LinkField(cid) == FieldObj("ManyToOne", FALSE, FALSE, RefCls(cid), "CASCADE")

\* ManyToMany.generate_link_class: two cascading ManyToOne, keyed by the
\* lower-case names of the two sides; the class is named <Cls><Ref>Link
GenerateLinkClass(st, cid, ref) ==
  LinkClasses(
    AddField(AddField(st, LinkField(cid)), LinkField(ref)),
    st.classes[cid].name \o st.classes[ref].name \o "link",
    DictPut(DictPut(<< >>, st.classes[cid].name, Len(st.fields) + 1),
            st.classes[ref].name, Len(st.fields) + 2))

\* ManyToMany._called_in_modelmeta_init(cls, fld_name) once the link class
\* is there (the last class made): the reverse accessor is set on ref
LinkedManyToMany(st, oid, cid, fld_name) ==
  [st EXCEPT
     !.fields[oid] = [@ EXCEPT !.cls = cid, !.name = fld_name, !.lnk = Len(st.classes),
                               !.related_name = st.classes[cid].name \o "_set"],
     !.classes[st.fields[oid].ref.cid].attrs =
        DictPut(@, st.classes[cid].name \o "_set",
                [kind |-> "m2m", ref |-> cid, lnk |-> Len(st.classes)])]

CalledManyToMany(st, oid, cid, fld_name) ==
  LinkedManyToMany(GenerateLinkClass(st, cid, st.fields[oid].ref.cid), oid, cid, fld_name)

\* one key of the class dict in ModelMeta.__init__
InitEntry(st, cid, e) ==
  IF st.fields[e.v].type = "ManyToMany" THEN CalledManyToMany(st, e.v, cid, e.k)
  ELSE IF st.fields[e.v].type = "ManyToOne"
    THEN [CalledManyToOne(st, e.v, cid, e.k) EXCEPT !.fields[e.v].is_user_defined = TRUE]
  ELSE [st EXCEPT !.fields[e.v].is_user_defined = TRUE]

\* "for k in dict.keys(): ...", then the key is injected if none was seen
InitDict(st, cid, entries, has_primary_key) ==
  IF entries = << >> THEN (IF has_primary_key THEN st ELSE InjectKey(st, cid))
  ELSE InitDict(InitEntry(st, cid, Head(entries)), cid, Tail(entries),
                has_primary_key
                \/ (IsField(st.fields[Head(entries).v])
                    /\ st.fields[Head(entries).v].is_primary_key))

\* ModelMeta.__init__(cls, name, bases, dict)
MetaInit(st, cid) == InitDict(Resume(st, cid), cid, st.classes[cid].dict, FALSE)

\* the class statement is over: the module has the name
Bind(st, cid) == [st EXCEPT !.classes[cid].bound = TRUE]

\* class <name>(Model): <decls>
ClassStatement(st, name, b) ==
  Bind(MetaInit(NewClass(b.st, name, b.dict), Len(b.st.classes) + 1), Len(b.st.classes) + 1)

DefState == [classes |-> module, fields |-> fields, order |-> pre_field_order,
             suspended |-> suspended]

Defined(name, decls, st) ==
  /\ module' = st.classes
  /\ fields' = st.fields
  /\ pre_field_order' = st.order
  /\ suspended' = st.suspended
  /\ call' = Call("class", "", [name |-> name, decls |-> decls], None)
  /\ nops' = nops + 1
  /\ UNCHANGED << qsvars, db, modelvars, readers, conn, globalvars >>

\* a class statement; the classes its declarations name as objects exist
DefineClass(name, decls) ==
  /\ nops < MaxDefOps
  /\ ~Bound(DefState, name)
  /\ \A k \in DOMAIN decls :
       decls[k].ref # None /\ ~IsRefStr(decls[k].ref) => Bound(DefState, decls[k].ref.cls)
  /\ Defined(name, decls, ClassStatement(DefState, name, EvalBody(DefState, decls, << >>)))

\* the state after "import macaron": ModelMeta("Model", ...) and then
\* "class Model(HasModelMeta)" have each made a class named Model
NothingDefined == [classes |-> << >>, fields |-> << >>, order |-> << >>, suspended |-> << >>]
Imported ==
  Bind(LinkClasses(NothingDefined, "model", << >>), 2)

\* the oids of order that are in oids, each once, by first position
RECURSIVE Ordered(_, _)
Ordered(order, oids) ==
  IF order = << >> THEN << >>
  ELSE IF Head(order) \in oids
    THEN << Head(order) >> \o Ordered(Tail(order), oids \ {Head(order)})
  ELSE Ordered(Tail(order), oids)

\* cls.__dict__ as far as Field objects go: the class dict and what
\* setattr added (cls.id)
ClassFields(st, cid) ==
  { e.v : e \in { st.classes[cid].dict[k] : k \in DOMAIN st.classes[cid].dict } }
  \cup { a.v.oid : a \in { x \in { st.classes[cid].attrs[k] : k \in DOMAIN st.classes[cid].attrs } :
                           x.v.kind = "field" } }

\* the primary key Field of the class a ManyToOne refers to ("reffld")
RefKeys(st, cid) ==
  { o \in ClassFields(st, cid) : IsField(st.fields[o]) /\ st.fields[o].is_primary_key }

IntegerTypes == {"IntegerField", "SerialKeyField"}

MetaField(name, type, pk, null) ==
  [name |-> name, type |-> type, is_primary_key |-> pk, null |-> null]

\* TableMetaInfo.__init__, one field of the sorted field_order: a
\* ManyToOne stands for its foreign key, IntegerField(null=fld.null); a
\* reference that is still a name has no __dict__
MetaEntry(st, name, f) ==
  IF f.type = "ManyToOne"
    THEN IF ~IsRefCls(f.ref) THEN [err |-> "AttributeError"]
         ELSE IF \E o \in RefKeys(st, f.ref.cid) : st.fields[o].type \in IntegerTypes
           THEN [err |-> "", fld |-> MetaField(f.fkey, "IntegerField", FALSE, f.null),
                 is_primary_key |-> f.is_primary_key]
         ELSE [err |-> "UnboundLocalError"]
    ELSE [err |-> "", fld |-> MetaField(name, f.type, f.is_primary_key, f.null),
          is_primary_key |-> f.is_primary_key]

NameOf(initial_field, oid) ==
  initial_field[CHOOSE k \in DOMAIN initial_field : initial_field[k].v = oid].k

MetaBuilt(es) ==
  IF \E k \in DOMAIN es : es[k].err # ""
    THEN [err |-> es[CHOOSE k \in DOMAIN es : es[k].err # "" /\ \A j \in 1..(k - 1) : es[j].err = ""].err,
          fields |-> << >>, primary_key |-> ""]
    ELSE [err |-> "",
          fields |-> [ k \in DOMAIN es |-> es[k].fld ],
          primary_key |->
            IF \E k \in DOMAIN es : es[k].is_primary_key
              THEN es[CHOOSE k \in DOMAIN es :
                        es[k].is_primary_key /\ \A j \in DOMAIN es : j > k => ~es[j].is_primary_key].fld.name
              ELSE ""]

MetaOrdered(st, cid, oids) ==
  MetaBuilt([ k \in DOMAIN oids |->
                MetaEntry(st, NameOf(st.classes[cid].initial_field, oids[k]), st.fields[oids[k]]) ])

\* cls._meta: TableMetaInfo(conn, table_name, cls)
Meta(st, cid) ==
  MetaOrdered(st, cid,
    Ordered(st.order, { st.classes[cid].initial_field[k].v : k \in DOMAIN st.classes[cid].initial_field }))

Column(name, pk, null, references, refkey, on_delete, on_update) ==
  [name |-> name, type |-> "INTEGER", primary_key |-> pk, null |-> null,
   references |-> references, refkey |-> refkey,
   on_delete |-> on_delete, on_update |-> on_update]

TypeColumn(name, f) ==
  [Column(name, f.is_primary_key, f.null, "", "", "", "") EXCEPT
     !.type = IF f.type \in IntegerTypes THEN "INTEGER" ELSE "TEXT"]

\* create_table, one user defined field with the _meta of the class it
\* refers to: REFERENCES "table"("key") ON DELETE .. ON UPDATE ..
ColumnOf(st, name, f, meta) ==
  IF f.type # "ManyToOne" THEN [err |-> "", col |-> TypeColumn(name, f)]
  ELSE IF meta.err # "" THEN [err |-> meta.err]
  ELSE [err |-> "",
        col |-> Column(f.fkey, f.is_primary_key, f.null, st.classes[f.ref.cid].name,
                       meta.primary_key, f.on_delete, f.on_update)]

ColumnAt(st, cid, oid) ==
  ColumnOf(st, NameOf(st.classes[cid].dict, oid), st.fields[oid],
           IF st.fields[oid].type = "ManyToOne"
             THEN (IF IsRefCls(st.fields[oid].ref) THEN Meta(st, st.fields[oid].ref.cid)
                   ELSE [err |-> "AttributeError"])
             ELSE [err |-> ""])

\* "if not has_primary_key: fld = IntegerField(primary_key=True)", named
\* id and put first; a ManyToOne never counts as the primary key here
ColumnsBuilt(st, cid, oids, cs) ==
  IF \E k \in DOMAIN cs : cs[k].err # ""
    THEN [err |-> cs[CHOOSE k \in DOMAIN cs : cs[k].err # ""].err, cols |-> << >>]
    ELSE [err |-> "",
          cols |-> (IF \E k \in DOMAIN oids :
                         st.fields[oids[k]].type # "ManyToOne" /\ st.fields[oids[k]].is_primary_key
                      THEN << >>
                      ELSE << Column("id", TRUE, FALSE, "", "", "", "") >>)
                   \o [ k \in DOMAIN cs |-> cs[k].col ]]

ColumnsOrdered(st, cid, oids) ==
  ColumnsBuilt(st, cid, oids, [ k \in DOMAIN oids |-> ColumnAt(st, cid, oids[k]) ])

\* the columns of CREATE TABLE: the user defined Field objects of the
\* class in creation order
Columns(st, cid) ==
  ColumnsOrdered(st, cid,
    Ordered(st.order, { o \in ClassFields(st, cid) :
                          IsField(st.fields[o]) /\ st.fields[o].is_user_defined }))

\* create_table(cls, link_tables=False) on the tables there are
Created(tables, name, c) ==
  IF name \in DOMAIN tables THEN [err |-> "TableAlreadyExists", db |-> tables, made |-> << >>]
  ELSE IF c.err # "" THEN [err |-> c.err, db |-> tables, made |-> << >>]
  ELSE [err |-> "", db |-> tables @@ (name :> {}),
        made |-> << [table |-> name, cols |-> c.cols] >>]

CreateOne(tables, st, cid) == Created(tables, st.classes[cid].name, Columns(st, cid))

Joined(r, x) == [err |-> x.err, db |-> x.db, made |-> r.made \o x.made]

\* create_link_tables(cls): create_table(fld.lnk) for each ManyToMany
RECURSIVE CreateLinks(_, _, _)
CreateLinks(r, st, lnks) ==
  IF r.err # "" \/ lnks = << >> THEN r
  ELSE CreateLinks(Joined(r, CreateOne(r.db, st, Head(lnks))), st, Tail(lnks))

LinksOf(st, cid) ==
  [ k \in DOMAIN SelectSeq(st.classes[cid].dict, LAMBDA e : ~IsField(st.fields[e.v])) |->
      st.fields[SelectSeq(st.classes[cid].dict, LAMBDA e : ~IsField(st.fields[e.v]))[k].v].lnk ]

CreateTableIn(tables, st, cid) ==
  CreateLinks(CreateOne(tables, st, cid), st, LinksOf(st, cid))

TableCreated(name, r) ==
  /\ db' = r.db
  /\ call' = Call("create_table", r.err, [name |-> name], r.made)
  /\ nops' = nops + 1
  /\ UNCHANGED << qsvars, modelvars, sidevars >>

\* create_table(cls) for a class of the module
CreateTable(name) ==
  /\ nops < MaxDefOps
  /\ Bound(DefState, name)
  /\ TableCreated(name, CreateTableIn(db, DefState, BoundId(DefState, name)))

InitMeta ==
  /\ FreshObjects
  /\ NoGlobals
  /\ readers = << >>
  /\ conn = NoConnection
  /\ db = << >>
  /\ module = Imported.classes
  /\ fields = Imported.fields
  /\ pre_field_order = Imported.order
  /\ suspended = Imported.suspended

ClassNames == {"a", "b", "c"}

Decl(k, type, pk, null, ref) == [k |-> k, type |-> type, pk |-> pk, null |-> null, ref |-> ref]
NameDecl == Decl("name", "CharField", FALSE, FALSE, None)
CodeDecl == Decl("code", "IntegerField", TRUE, FALSE, None)

\* the class bodies tried: no key, a declared key before or after another
\* field, a ManyToOne by name or by class, a ManyToMany; a body declares at
\* most one primary key and no field named id
Bodies ==
  { << NameDecl >>, << NameDecl, CodeDecl >>, << CodeDecl, NameDecl >> }
  \cup { << NameDecl, Decl("owner", "ManyToOne", FALSE, TRUE, RefStr(t)) >> : t \in ClassNames }
  \cup { << CodeDecl, Decl("owner", "ManyToOne", FALSE, TRUE, [cls |-> t]) >> : t \in ClassNames }
  \cup { << NameDecl, Decl("tags", "ManyToMany", FALSE, FALSE, [cls |-> t]) >> : t \in ClassNames }

NextMeta ==
  \/ \E name \in ClassNames, decls \in Bodies : DefineClass(name, decls)
  \/ \E name \in ClassNames : CreateTable(name)

SpecMeta == InitMeta /\ [][NextMeta]_vars

\* a foreign key column <side>_id that cascades deletes and updates
IsCascadingKey(c) ==
  /\ c.references # ""
  /\ c.name = c.references \o "_id"
  /\ c.on_delete = "CASCADE"
  /\ c.on_update = "CASCADE"

\* the link tables a create_table call has made: all but the first
LinkTablesMade == { call.out[k] : k \in 2..Len(call.out) }

DeclaredKeys(st, cid) ==
  { e.k : e \in { x \in { st.classes[cid].dict[k] : k \in DOMAIN st.classes[cid].dict } :
                  IsField(st.fields[x.v]) /\ st.fields[x.v].is_primary_key } }

HasSyntheticKey(st, cid) == DictHas(st.classes[cid].attrs, "id")

OneKey(st, cid, m) ==
  /\ Cardinality({ k \in DOMAIN m.fields : m.fields[k].is_primary_key }) = 1
  /\ \E k \in DOMAIN m.fields : m.fields[k].is_primary_key /\ m.fields[k].name = m.primary_key
  /\ IF DeclaredKeys(st, cid) # {}
       THEN /\ m.primary_key \in DeclaredKeys(st, cid)
            /\ ~HasSyntheticKey(st, cid)
            /\ \A k \in DOMAIN m.fields : m.fields[k].name # "id"
       ELSE /\ HasSyntheticKey(st, cid)
            /\ m.fields[1] = MetaField("id", "SerialKeyField", TRUE, TRUE)

ForwardResolved ==
  \A o \in DOMAIN fields :
    fields[o].type = "ManyToOne" =>
      /\ IsRefStr(fields[o].ref) => ~Bound(DefState, fields[o].ref.str)
      /\ IsRefCls(fields[o].ref) =>
           /\ fields[o].related_name # ""
           /\ DictHas(module[fields[o].ref.cid].attrs, fields[o].related_name)

(* C26: after offset(k) the compiled statement has a LIMIT before its      *)
(* OFFSET k: the limit of the receiver whenever one was set, 0 included,   *)
(* and the unbounded -1 only when the receiver had no limit.               *)
OffsetKeepsLimit ==
  [][ call'.op = "offset" =>
        /\ Sql(qs'[recv'], clauses'[qs'[recv'].cl]).offset = call'.arg
        /\ Sql(qs'[recv'], clauses'[qs'[recv'].cl]).limit =
             (IF SelfClauses.limit = None THEN PyInt(-1) ELSE SelfClauses.limit) ]_vars

\* the rows the query-set q with clauses c yields now
RowsOf(q, c) == Range(Execute(Sql(q, c), c.values, db).rows)

(* C27: a slice composes with the limit of the query-set it is taken of:   *)
(* the query-set qs[a:b] or qs[a:] returns yields only rows that qs        *)
(* itself yields.                                                          *)
SliceWithinWindow ==
  [][ (call'.op = "getitem" /\ call'.err = "") =>
        RowsOf(qs'[recv'], clauses'[qs'[recv'].cl]) \subseteq RowsOf(Self, SelfClauses) ]_vars

----------------------------------------------------------------------------
(* Readers of one QuerySet object: every loop "for x in qs" calls          *)
(* qs.__iter__() once and then qs.next() until StopIteration; the loops    *)
(* (nested, or of two threads) take turns call by call.  The object read   *)
(* is the query-set the program holds, Self.                               *)

Readers == {1, 2}

NotReading == [pc |-> "idle", seen |-> << >>]

\* _execute(): _initialize_cursor(), then self.cur = execute(self.sql, ...)
Reexecuted(q, x) ==
  [q EXCEPT !.cur = [open |-> TRUE, rows |-> x.rows], !.index = -1, !.cache = << >>]

ExecuteSelf(q) == Reexecuted(q, Execute(Sql(q, SelfClauses), SelfClauses.values, db))

Read(r, op, q, pc, seen) ==
  /\ qs' = [qs EXCEPT ![recv] = q]
  /\ readers' = [readers EXCEPT ![r] = [pc |-> pc, seen |-> seen]]
  /\ call' = Call(op, IF pc = "done" THEN "StopIteration" ELSE "", r, None)
  /\ nops' = nops + 1
  /\ UNCHANGED << clauses, recv, db, modelvars, metavars, conn, globalvars >>

\* QuerySet.__iter__ called by the loop of reader r
Iter(r) ==
  /\ readers[r].pc = "idle"
  /\ Read(r, "iter", ExecuteSelf(Self), "reading", << >>)

\* row = self.cur.fetchone(); self._index += 1; no row: StopIteration,
\* else the object is appended to the cache and returned
Fetched1(r, q) ==
  IF q.cur.rows = << >>
    THEN Read(r, "next", [q EXCEPT !.index = @ + 1], "done", readers[r].seen)
    ELSE Read(r, "next",
              [q EXCEPT !.cur.rows = Tail(@), !.index = @ + 1,
                        !.cache = Append(@, Head(q.cur.rows))],
              "reading", Append(readers[r].seen, Head(q.cur.rows)))

\* QuerySet.next called by the loop of reader r: "if not self.cur:
\* self._execute()" first
IterNext(r) ==
  /\ readers[r].pc = "reading"
  /\ Fetched1(r, IF Self.cur.open THEN Self ELSE ExecuteSelf(Self))

InitIter ==
  /\ FreshObjects
  /\ NoGlobals
  /\ NoClasses
  /\ conn = NoConnection
  /\ db \in InitialDbs
  /\ readers = [ r \in Readers |-> NotReading ]

NextIter ==
  \/ \E r \in Readers : Iter(r)
  \/ \E r \in Readers : IterNext(r)

SpecIter == InitIter /\ [][NextIter]_vars

\* what iterating Self alone from start to end yields
WholeResult == Execute(Sql(Self, SelfClauses), SelfClauses.values, db).rows

(* C18: readers that interleave their iteration over one QuerySet object   *)
(* each see the complete result: a reader whose loop has ended has seen    *)
(* every row exactly once and in order.                                    *)
ReadersSeeAll ==
  \A r \in Readers : readers[r].pc = "done" => readers[r].seen = WholeResult

----------------------------------------------------------------------------
(* The connection: macaronage(dbfile, lazy=...), LazyConnection and the    *)
(* calls made on the connection object.                                    *)

\* LazyConnection.__init__: self._conn = None
NewLazyConnection == [NoConnection EXCEPT !.made = TRUE, !.lazy = TRUE]

\* sqlite3.connect(dbfile, ...)
Connected == [NoConnection EXCEPT !.made = TRUE, !.conn = TRUE, !.opened = 1]

\* LazyConnection.__getattr__(name): commit, rollback and close without a
\* connection are answered by noop; any other name opens the connection
\* unless there is one
GetAttr(c, name) ==
  IF ~c.conn /\ name \in {"commit", "rollback", "close"}
    THEN [noop |-> TRUE, c |-> c]
    ELSE [noop |-> FALSE,
          c |-> IF c.conn THEN c ELSE [c EXCEPT !.conn = TRUE, !.opened = @ + 1]]

\* the attribute of the connection object: that of the sqlite3 connection
\* itself unless the object is a LazyConnection
Attr(c, name) == IF c.lazy THEN GetAttr(c, name) ELSE [noop |-> FALSE, c |-> c]

\* a method of sqlite3.Connection called: a closed connection refuses all
\* but close
Invoked(c, name) ==
  IF c.closed /\ name # "close" THEN [err |-> "ProgrammingError", c |-> c]
  ELSE [err |-> "", c |-> [c EXCEPT !.closed = @ \/ name = "close"]]

ConnDone(op, arg, err, out, c) ==
  /\ conn' = c
  /\ call' = Call(op, err, arg, out)
  /\ nops' = nops + 1
  /\ UNCHANGED << qsvars, db, modelvars, metavars, readers, globalvars >>

\* conn = LazyConnection(...) or sqlite3.connect(...), then
\* conn.create_function("REGEXP", 2, _regexp), then the connection is set
MacaronageOn(lazy, a) ==
  ConnDone("macaronage", [lazy |-> lazy], Invoked(a.c, "create_function").err, None,
           Invoked(a.c, "create_function").c)

Macaronage(lazy) ==
  /\ nops < MaxConnOps
  /\ MacaronageOn(lazy, Attr(IF lazy THEN NewLazyConnection ELSE Connected, "create_function"))

\* LazyConnection(dbfile) made by the program itself
Construct ==
  /\ nops < MaxConnOps
  /\ ConnDone("LazyConnection", None, "", None, NewLazyConnection)

Called(name, a) ==
  IF a.noop THEN ConnDone(name, None, "", PyStr("noop"), a.c)
  ELSE ConnDone(name, None, Invoked(a.c, name).err, None, Invoked(a.c, name).c)

\* conn.commit(), conn.rollback(), conn.close(), conn.cursor() on the
\* connection object (bake, rollback, cleanup and execute call these)
ConnCall(name) ==
  /\ nops < MaxConnOps
  /\ conn.made
  /\ Called(name, Attr(conn, name))

ConnNames == {"commit", "rollback", "close", "cursor"}

InitConn ==
  /\ FreshObjects
  /\ NoGlobals
  /\ NoClasses
  /\ readers = << >>
  /\ conn = NoConnection
  /\ db \in InitialDbs

NextConn ==
  \/ \E lazy \in BOOLEAN : Macaronage(lazy)
  \/ Construct
  \/ \E name \in ConnNames : ConnCall(name)

SpecConn == InitConn /\ [][NextConn]_vars

(* C20: after macaronage(lazy=True) returns, the database connection has   *)
(* not been opened; a lazy connection is opened at most once, by the first *)
(* use that needs it; commit, rollback and close issued before that are    *)
(* no-ops that leave it unopened.                                          *)
LazyUntilUsed ==
  [][ /\ (call'.op = "macaronage" /\ call'.arg.lazy) => ~conn'.conn
      /\ conn'.lazy => conn'.opened <= 1
      /\ (call'.op \in {"commit", "rollback", "close"} /\ conn.lazy /\ ~conn.conn) =>
           /\ call'.out = PyStr("noop")
           /\ conn' = conn ]_vars

----------------------------------------------------------------------------
(* Closing the database: macaronage(dbfile, autocommit=...), changes made  *)
(* in the connection's transaction, bake, rollback, cleanup, and the       *)
(* Macaron object being unloaded.  db is what the database file holds,     *)
(* macaron.pending the rows inserted and not committed yet.                *)

\* _m = Macaron(); _m.autocommit = autocommit
MacaronOf(autocommit) == [loaded |-> TRUE, autocommit |-> autocommit, pending |-> {}]

World(c, m, tables) == [err |-> "", c |-> c, m |-> m, db |-> tables]

\* connection.commit(): the pending rows reach the file
Commit(w) ==
  IF w.c.closed THEN [w EXCEPT !.err = "ProgrammingError"]
  ELSE [w EXCEPT !.db.note = @ \cup w.m.pending, !.m.pending = {}]

\* connection.rollback()
Rollback(w) ==
  IF w.c.closed THEN [w EXCEPT !.err = "ProgrammingError"]
  ELSE [w EXCEPT !.m.pending = {}]

\* connection.close(): what is not committed is lost
Close(w) == [w EXCEPT !.c.closed = TRUE, !.m.pending = {}]

\* Macaron.__del__: "if self.autocommit: self.connection[k].commit()" and
\* then close(); an exception ends __del__ and is ignored
Del(w) ==
  IF w.m.autocommit
    THEN (IF Commit(w).err # "" THEN w ELSE Close(Commit(w)))
    ELSE Close(w)

\* globals()["_m"] = None
Dropped(w) == [w EXCEPT !.m = NotLoaded, !.err = ""]

AutoDone(op, arg, w) ==
  /\ conn' = w.c
  /\ macaron' = w.m
  /\ db' = w.db
  /\ call' = Call(op, w.err, arg, None)
  /\ nops' = nops + 1
  /\ UNCHANGED << qsvars, modelvars, metavars, readers, history, cursors >>

Here == World(conn, macaron, db)

\* macaronage(dbfile, autocommit=...)
ConnectAuto(autocommit) ==
  /\ nops < MaxAutoOps
  /\ ~macaron.loaded
  /\ AutoDone("macaronage", [autocommit |-> autocommit],
              World(Connected, MacaronOf(autocommit), db))

\* an INSERT run on the connection: it opens a transaction if none is open
Inserted(w, name) ==
  IF w.c.closed THEN [w EXCEPT !.err = "ProgrammingError"]
  ELSE [w EXCEPT !.m.pending =
          @ \cup { Named(Cardinality(w.db.note \cup w.m.pending) + 1, name) }]

Change(name) ==
  /\ nops < MaxAutoOps
  /\ macaron.loaded
  /\ AutoDone("create", [name |-> name], Inserted(Here, name))

\* bake(): _m.connection["default"].commit()
Bake ==
  /\ nops < MaxAutoOps
  /\ macaron.loaded
  /\ AutoDone("bake", None, Commit(Here))

\* rollback(): _m.connection["default"].rollback()
RollbackAll ==
  /\ nops < MaxAutoOps
  /\ macaron.loaded
  /\ AutoDone("rollback", None, Rollback(Here))

\* cleanup(): the connection is closed, then _m is set to None, which
\* unloads the Macaron object
Cleanup ==
  /\ nops < MaxAutoOps
  /\ macaron.loaded
  /\ AutoDone("cleanup", None, Dropped(Del(Close(Here))))

\* the Macaron object is unloaded without cleanup(): the program ends, or
\* _m is replaced
Unload ==
  /\ nops < MaxAutoOps
  /\ macaron.loaded
  /\ AutoDone("unload", None, Dropped(Del(Here)))

InitAuto ==
  /\ FreshObjects
  /\ NoClasses
  /\ NoGlobals
  /\ readers = << >>
  /\ conn = NoConnection
  /\ db = [note |-> {}]

NextAuto ==
  \/ \E autocommit \in BOOLEAN : ConnectAuto(autocommit)
  \/ \E name \in {"a", "b"} : Change(name)
  \/ Bake
  \/ RollbackAll
  \/ Cleanup
  \/ Unload

SpecAuto == InitAuto /\ [][NextAuto]_vars

(* C21: with autocommit=True, the changes that are still uncommitted when  *)
(* the database is closed, by cleanup() or when the Macaron object is      *)
(* unloaded, are committed before the connection is closed: the file holds *)
(* them afterwards.                                                        *)
CommittedOnClose ==
  [][ (call'.op \in {"cleanup", "unload"} /\ macaron.autocommit) =>
        db'.note = db.note \cup macaron.pending ]_vars

----------------------------------------------------------------------------
(* The SQL history: history = ListHandler(max_count).  A statement is      *)
(* named by its serial number, history.emitted being the number of         *)
(* statements handed to emit so far.                                       *)

\* ListHandler.__init__(max_count)
ListHandler(max_count) == [max_count |-> max_count, list |-> << >>, emitted |-> 0]

\* "while len(self._list) > keep: self._list.pop()"
PoppedTo(list, keep) == IF Len(list) > keep THEN SubSeq(list, 1, keep) ELSE list

\* emit pops while as many as max_count are kept
EmitKeepsAll(max_count) == max_count

\* emit: "while len(self._list) >= self._max_count: self._list.pop()"
EmitKeeps(max_count) == max_count - 1

\* ListHandler.emit(record), record being statement number h.emitted + 1
Emit(h) ==
  IF h.max_count < 0 THEN [h EXCEPT !.emitted = @ + 1]
  ELSE [h EXCEPT
          !.emitted = @ + 1,
          !.list = << h.emitted + 1 >>
                   \o (IF h.max_count > 0 THEN PoppedTo(@, EmitKeeps(h.max_count)) ELSE @)]

\* ListHandler.set_max_count(max_count)
SetMaxCount(h, max_count) ==
  [h EXCEPT !.max_count = max_count,
            !.list = IF max_count > 0 THEN PoppedTo(@, max_count) ELSE @]

\* ListHandler.__getitem__(idx)
HistoryItem(h, idx) ==
  IF h.max_count < 0 THEN [err |-> "RuntimeError", out |-> None]
  ELSE IF Len(h.list) <= idx THEN [err |-> "IndexError", out |-> None]
  ELSE [err |-> "", out |-> PyInt(h.list[idx + 1])]

HistoryDone(op, arg, err, out, h) ==
  /\ history' = h
  /\ call' = Call(op, err, arg, out)
  /\ nops' = nops + 1
  /\ UNCHANGED << qsvars, db, modelvars, metavars, readers, conn, macaron, cursors >>

\* macaronage(history=n): history = ListHandler(-1), and set_max_count(n)
\* "if history >= 0"
MacaronageHistory(n) ==
  /\ nops < MaxHistOps
  /\ HistoryDone("macaronage", [history |-> n], "", None,
                 IF n >= 0 THEN SetMaxCount(ListHandler(-1), n) ELSE ListHandler(-1))

\* a statement is logged: the handler's emit
HistoryEmit ==
  /\ nops < MaxHistOps
  /\ HistoryDone("emit", None, "", None, Emit(history))

\* history.set_max_count(n)
HistorySetMaxCount(n) ==
  /\ nops < MaxHistOps
  /\ HistoryDone("set_max_count", [max_count |-> n], "", None, SetMaxCount(history, n))

\* history[idx]
HistoryGetItem(idx) ==
  /\ nops < MaxHistOps
  /\ HistoryDone("getitem", [idx |-> idx], HistoryItem(history, idx).err,
                 HistoryItem(history, idx).out, history)

MaxCounts == {-1, 0, 1, 2}

InitHistory ==
  /\ FreshObjects
  /\ NoClasses
  /\ readers = << >>
  /\ conn = NoConnection
  /\ macaron = NotLoaded
  /\ history = ListHandler(-1)
  /\ cursors = 0
  /\ db \in InitialDbs

NextHistory ==
  \/ \E n \in MaxCounts : MacaronageHistory(n)
  \/ HistoryEmit
  \/ \E n \in MaxCounts : HistorySetMaxCount(n)
  \/ \E idx \in {0, 1, 2} : HistoryGetItem(idx)

SpecHistory == InitHistory /\ [][NextHistory]_vars

\* list is what is left of longer when only its oldest entries go
KeepsNewest(list, longer) ==
  /\ Len(list) <= Len(longer)
  /\ list = SubSeq(longer, 1, Len(list))

NewestFirst(list) == \A i, j \in DOMAIN list : i < j => list[i] > list[j]

(* C22: the history is newest-first and bounded.  After every emit and     *)
(* set_max_count with max_count > 0 it holds at most max_count entries;    *)
(* after an emit that records, index 0 is the statement just emitted; the  *)
(* entries kept are the most recent ones (only the oldest are discarded);  *)
(* with max_count = 0 nothing is discarded; with max_count < 0 nothing is  *)
(* recorded and indexing raises RuntimeError.                              *)
HistoryBounded ==
  [][ /\ NewestFirst(history'.list)
      /\ history'.max_count > 0 => Len(history'.list) <= history'.max_count
      /\ (call'.op = "emit" /\ history.max_count >= 0) =>
           /\ history'.list[1] = history'.emitted
           /\ KeepsNewest(history'.list, << history'.emitted >> \o history.list)
      /\ call'.op = "set_max_count" => KeepsNewest(history'.list, history.list)
      /\ (call'.op = "emit" /\ history.max_count = 0) =>
           history'.list = << history'.emitted >> \o history.list
      /\ (call'.op = "set_max_count" /\ history'.max_count <= 0) =>
           history'.list = history.list
      /\ (call'.op = "emit" /\ history.max_count < 0) => history'.list = history.list
      /\ (call'.op = "getitem" /\ history.max_count < 0) => call'.err = "RuntimeError"
      /\ (call'.op = "getitem" /\ history.max_count >= 0 /\ call'.arg.idx < Len(history.list)) =>
           call'.out = PyInt(history.list[call'.arg.idx + 1]) ]_vars

\* an emit has discarded the oldest entry of a full history
OldestDiscarded ==
  /\ call.op = "emit"
  /\ history.max_count = 2
  /\ Len(history.list) = 2
  /\ history.emitted > 2
  /\ history.list = << history.emitted, history.emitted - 1 >>

----------------------------------------------------------------------------
(* Joins over a model with several relationships: the query-sets of        *)
(* Player, whose paths fork (team, mate, tags) and go on from Team         *)
(* (members, players, mates).                                              *)

JoinPaths ==
  { << << "team" >> >>, << << "mate" >> >>, << << "tags" >> >>,
    << << "team", "players" >> >>, << << "team", "members" >> >>,
    << << "mate", "mates" >> >>, << << "mate", "players", "tags" >> >>,
    << << "team", "mates", "mate" >>, << "mate" >> >>,
    << << "team", "nosuch" >> >> }

InitJoin ==
  /\ qs = [ r \in Slots |-> FreshQuerySet("player", r) ]
  /\ clauses = [ r \in Slots |-> FreshClauses ]
  /\ recv = 1
  /\ call = NoCall
  /\ nops = 0
  /\ obj = None
  /\ rowid = 0
  /\ removed = FALSE
  /\ NoClasses
  /\ NoGlobals
  /\ readers = << >>
  /\ conn = NoConnection
  /\ db \in InitialDbs

NextJoin ==
  \/ \E names \in JoinPaths : Join(names)
  \/ \E names \in OrderByInputs : OrderBy(names)

SpecJoin == InitJoin /\ [][NextJoin]_vars

\* the JOIN clauses of the relationship paths, the keys of joins, among the
\* clauses cs of a statement (a many-to-many path has its link table's
\* clause, under "<path>.lnk", right before its own)
PathClauses(joins, cs) == SelectSeq(cs, LAMBDA c : c.as \in DictKeys(joins))

PathsOrdered(joins, ps) ==
  /\ Len(ps) = Len(joins)
  /\ \A i, j \in DOMAIN ps :
       i < j => \/ Len(ps[i].as) < Len(ps[j].as)
                \/ Len(ps[i].as) = Len(ps[j].as) /\ LexLess(ps[i].as, ps[j].as)
  /\ \A j \in DOMAIN ps :
       Len(ps[j].as) > 2 =>
         \E i \in 1..(j - 1) : ps[i].as = SubSeq(ps[j].as, 1, Len(ps[j].as) - 1)

(* C23: in the compiled SQL the JOIN clauses of the relationship paths     *)
(* are ordered by path depth, ties in lexical order, and for every path    *)
(* deeper than one relationship the JOIN of its parent path (the alias     *)
(* without its last segment) is present and comes earlier.                 *)
JoinsOrdered ==
  \A r \in Slots :
    PathsOrdered(qs[r].joins,
                 PathClauses(qs[r].joins, Sql(qs[r], clauses[qs[r].cl]).joins))

\* a statement with two paths of one depth that were joined in the other
\* order, and a deeper path joined before them
TiesAndDepths ==
  /\ Len(qs[recv].joins) >= 4
  /\ qs[recv].joins[1].key = << "player", "team" >>
  /\ qs[recv].joins[2].key = << "player", "team", "players" >>
  /\ \E k \in DOMAIN qs[recv].joins : qs[recv].joins[k].key = << "player", "mate" >>

----------------------------------------------------------------------------
(* Model.create step by step, on a Note whose made column is a             *)
(* TimestampAtCreate and whose class overrides the hooks.  The call        *)
(* records every step it entered, in order.                                *)

\* Model._before_before_store(obj, "set", AtCreate): TimestampAtCreate.set
\* gives datetime.now() whatever the value was
SetAtCreate(data, now) == [data EXCEPT !.made = now]

\* the before_create of the class: nothing, an exception, or a new name
BeforeCreate(hook, data) ==
  IF hook = "raise" THEN [err |-> "HookError", data |-> data]
  ELSE IF hook = "rename" THEN [err |-> "", data |-> [data EXCEPT !.name = PyStr("h")]]
  ELSE [err |-> "", data |-> data]

\* obj.validate() returned
PassedAnyway(verr) == TRUE

Passed(verr) == verr = ""

CreateFailed(arg, steps, err) ==
  Done("Model.create", arg, err, steps, obj, db.note, rowid, removed)

\* obj.after_create(), then return obj
CreateAfter(arg, steps, rows, rid, f) ==
  IF f.err # "" THEN Done("Model.create", arg, f.err, steps, obj, rows, rid, removed)
  ELSE IF arg.after = "raise"
    THEN Done("Model.create", arg, "HookError", Append(steps, "after_create"),
              obj, rows, rid, removed)
  ELSE Done("Model.create", arg, "", Append(steps, "after_create"), f.obj, rows, rid, FALSE)

\* newobj = cls.get(current_id)
CreateGot(arg, steps, rows, rid, g) ==
  IF g.err # "" THEN Done("Model.create", arg, g.err, steps, obj, rows, rid, removed)
  ELSE CreateAfter(arg, steps, rows, rid, Factory(g.out[1]))

\* cls._save_and_update_object(obj, sql, values), the INSERT run as x
CreateSaved(arg, steps, data, x) ==
  IF x.err # "" THEN CreateFailed(arg, steps, x.err)
  ELSE CreateGot(arg, Append(steps, "SELECT"), x.rows, x.rowid,
                 GetByPk("note", IF data.id = None THEN PyInt(x.rowid) ELSE data.id, x.rows))

\* Model._before_before_store(obj, "to_database", Field) ran as st
CreateConverted(arg, steps, names, st) ==
  IF st.err # "" THEN CreateFailed(arg, steps, st.err)
  ELSE CreateSaved(arg, Append(steps, "INSERT"), st.data, SqlInsert(db.note, names, st.data))

\* obj.validate() ran
CreateValid(arg, steps, names, data, verr) ==
  IF ~Passed(verr) THEN CreateFailed(arg, steps, "ValidationError")
  ELSE CreateConverted(arg, Append(steps, "to_database"), names, StoreData(data))

\* obj.before_create() ran as h
CreateHooked(arg, steps, names, h) ==
  IF h.err # "" THEN CreateFailed(arg, steps, h.err)
  ELSE CreateValid(arg, Append(steps, "validate"), names, h.data, Validate(h.data))

\* the names are taken from the object as the constructor left it
CreateSet(arg, names, data) ==
  CreateHooked(arg, << "set", "before_create" >>, names, BeforeCreate(arg.before, data))

CreateMade(arg, b) ==
  IF b.err # "" THEN CreateFailed(arg, << >>, b.err)
  ELSE CreateSet(arg, CreateNames(b.obj.data), SetAtCreate(b.obj.data, arg.now))

\* obj = Note.create(**kw), the class having the hooks before and after
HookedCreate(kw, before, after, now) ==
  /\ nops < MaxDbOps
  /\ CreateMade([kw |-> kw, before |-> before, after |-> after, now |-> now], ModelInit(kw))

BeforeHooks == { "pass", "raise", "rename" }
AfterHooks == { "pass", "raise" }
Nows == { Dt(4, 5) }

HookedInputs ==
  { {},
    { << "name", PyStr("a") >> },
    { << "name", PyStr("b") >>, << "made", Dt(3, 5) >> },
    { << "name", PyStr("abcd") >> },
    { << "id", PyInt(0) >>, << "name", PyStr("b") >> },
    { << "id", PyInt(2) >>, << "name", PyStr("a") >> } }

InitCreate == InitDB

NextCreate ==
  \/ \E kw \in HookedInputs, before \in BeforeHooks, after \in AfterHooks, now \in Nows :
       HookedCreate(kw, before, after, now)
  \/ ModelDelete

SpecCreate == InitCreate /\ [][NextCreate]_vars

CreateSteps ==
  << "set", "before_create", "validate", "to_database", "INSERT", "SELECT", "after_create" >>

\* what obj.validate() of the call was given
CheckedData(arg) ==
  BeforeCreate(arg.before, SetAtCreate(ModelInit(arg.kw).obj.data, arg.now)).data

(* C24: create enters its steps in the order set-at-create overrides,      *)
(* before_create, validation, conversion for storage, INSERT, fetch-back   *)
(* by key, after_create; it issues the INSERT only when validation of the  *)
(* object passed, and runs after_create only when the INSERT added a row   *)
(* and the fetch-back found it.                                            *)
CreateInOrder ==
  [][ call'.op = "Model.create" =>
        /\ Len(call'.stmts) <= Len(CreateSteps)
        /\ call'.stmts = SubSeq(CreateSteps, 1, Len(call'.stmts))
        /\ "INSERT" \in Range(call'.stmts) => Validate(CheckedData(call'.arg)) = ""
        /\ "after_create" \in Range(call'.stmts) =>
             /\ Cardinality(db'.note) = Cardinality(db.note) + 1
             /\ \E row \in db'.note \ db.note :
                  row.name = CheckedData(call'.arg).name /\ row.made = Stamp(call'.arg.now.sec)
             /\ db.note \subseteq db'.note ]_vars

\* a create that ran to its last step after the hook renamed the object
CreatedThrough ==
  /\ call.op = "Model.create"
  /\ call.stmts = CreateSteps
  /\ call.arg.before = "rename"
  /\ call.err = ""
  /\ obj # None
  /\ obj.data.name = PyStr("h")

----------------------------------------------------------------------------
(* Positional indexing: qs[i], iter(qs) and next(qs) on the query-set the  *)
(* program holds.  An object made from a row is the row and the serial     *)
(* number of the cursor it was fetched from, so that the objects of two    *)
(* executions differ.                                                      *)

MaxIndexOps == 4

CachedObject(row, n) == [row |-> row, made |-> n]

\* self._execute() with n cursors opened before: _initialize_cursor(), then
\* self.cur = execute(self.sql, self.clauses["values"])
ExecuteOn(w) ==
  [q |-> ExecuteSelf(w.q), n |-> w.n + 1, stop |-> FALSE]

\* next() on an open cursor: row = self.cur.fetchone(); self._index += 1;
\* StopIteration without a row, else the object goes to the cache
NextFetch(w) ==
  IF w.q.cur.rows = << >> THEN [w EXCEPT !.q.index = @ + 1, !.stop = TRUE]
  ELSE [w EXCEPT !.q.cur.rows = Tail(@), !.q.index = @ + 1,
                 !.q.cache = Append(@, CachedObject(Head(w.q.cur.rows), w.n))]

\* QuerySet.next: "if not self.cur: self._execute()" first
NextOn(w) == NextFetch(IF w.q.cur.open THEN w ELSE ExecuteOn(w))

\* "for obj in self: if self._index >= index: return obj", w being the
\* state after the last next(); the loop ends without a return at
\* StopIteration
RECURSIVE Seek(_, _)
Seek(w, index) ==
  IF w.stop THEN [err |-> "", out |-> None, w |-> w]
  ELSE IF w.q.index >= index
    THEN [err |-> "", out |-> w.q.cache[Len(w.q.cache)], w |-> w]
  ELSE Seek(NextOn(w), index)

\* a query-set that never answers from its cache
CacheUnused(q, index) == FALSE

\* "elif self._index >= index"
CacheHit(q, index) == q.index >= index

\* QuerySet.__getitem__(index) for an integer index
ItemAt(w, index) ==
  IF CacheHit(w.q, index)
    THEN (IF index < Len(w.q.cache)
            THEN [err |-> "", out |-> w.q.cache[index + 1], w |-> w]
            ELSE [err |-> "IndexError", out |-> None, w |-> w])
    ELSE Seek(NextOn(ExecuteOn(w)), index)

Held == [q |-> Self, n |-> cursors, stop |-> FALSE]

IndexDone(op, arg, err, out, w) ==
  /\ qs' = [qs EXCEPT ![recv] = w.q]
  /\ cursors' = w.n
  /\ call' = Call(op, err, arg, out)
  /\ nops' = nops + 1
  /\ UNCHANGED << clauses, recv, db, modelvars, metavars, readers, conn, macaron, history >>

\* qs[index]
IndexItem(index) ==
  /\ nops < MaxIndexOps
  /\ IndexDone("getitem", index, ItemAt(Held, index).err, ItemAt(Held, index).out,
               ItemAt(Held, index).w)

\* iter(qs)
IndexIter ==
  /\ nops < MaxIndexOps
  /\ IndexDone("iter", None, "", None, ExecuteOn(Held))

\* next(qs)
IndexNext ==
  /\ nops < MaxIndexOps
  /\ IndexDone("next", None, IF NextOn(Held).stop THEN "StopIteration" ELSE "",
               IF NextOn(Held).stop THEN None
               ELSE NextOn(Held).q.cache[Len(NextOn(Held).q.cache)],
               NextOn(Held))

Indexes == 0..3

InitIndex ==
  /\ FreshProgram
  /\ db \in InitialDbs

NextIndex ==
  \/ \E index \in Indexes : IndexItem(index)
  \/ IndexIter
  \/ IndexNext

SpecIndex == InitIndex /\ [][NextIndex]_vars

(* C25: when the object at a position is in the cache of the query-set     *)
(* (qs[i] produced it and no iteration was started since), qs[j] for a     *)
(* position j up to it returns that very object and opens no cursor; a     *)
(* fresh iteration empties the cache and executes the statement again.     *)
CachedItemReused ==
  [][ /\ (call'.op = "getitem" /\ call'.arg <= Self.index /\ call'.arg < Len(Self.cache)) =>
           /\ call'.err = ""
           /\ call'.out = Self.cache[call'.arg + 1]
           /\ cursors' = cursors
           /\ qs'[recv].cache = Self.cache
      /\ call'.op = "iter" =>
           /\ cursors' = cursors + 1
           /\ qs'[recv].cache = << >>
           /\ qs'[recv].index = -1 ]_vars

\* qs[0] answered from the cache after qs[1] had produced its object
ItemFromCache ==
  /\ call.op = "getitem"
  /\ call.arg = 0
  /\ call.out # None
  /\ cursors = 1
  /\ Self.index = 1
  /\ Len(Self.cache) = 2

(* C28: in every reachable state of a query-set every position from 0 to   *)
(* _index has a cached object, that is _index < len(_cache); so qs[i] for  *)
(* a position at or beyond the number of rows never raises IndexError.     *)
IndexWithinCache ==
  /\ \A r \in Slots : qs[r].index < Len(qs[r].cache)
  /\ call.op = "getitem" => call.err # "IndexError"

----------------------------------------------------------------------------
(* Many-to-many between two classes whose tables may be named by           *)
(* _table_name: class Post with tags = ManyToMany(Tag, related_name =      *)
(* "posts"), and class Tag.  module holds the two classes; the link model  *)
(* PostTagLink is generated.  A link row maps the link table's columns to  *)
(* values; the posts and the tags themselves, keys 1 and 2, are there.     *)

MaxLinkOps == 3

\* a model class: its __name__ in lower case and its _meta.table_name
ModelClass(name, table) == [name |-> name, table |-> table]

\* the two ends of the relationship as an accessor sees them: Post.tags
\* has cls = Post and ref = Tag, the reverse accessor Tag.posts
\* (_ManyToManyBase(cls, ..., cls=self.ref)) has cls = Tag and ref = Post
Ends(side) ==
  IF side = "tags" THEN [cls |-> module[1], ref |-> module[2]]
  ELSE [cls |-> module[2], ref |-> module[1]]

\* the link columns of an accessor named after the classes' tables
LinkKeysByTable(e) == << e.cls.table \o "_id", e.ref.table \o "_id" >>

\* the link columns of an accessor named after the classes:
\* "%s_id" % self.cls.__name__.lower() and "%s_id" % self.ref.__name__.lower()
LinkKeysByName(e) == << e.cls.name \o "_id", e.ref.name \o "_id" >>

\* generate_link_class: ManyToOne fields named cls.__name__.lower() and
\* ref.__name__.lower() of the declaring side, whose columns are
\* "%s_id" % self.name; with the key column these are the link table's
LinkModelKeys == LinkKeysByName(Ends("tags"))
LinkModelColumns == { "id", LinkModelKeys[1], LinkModelKeys[2] }

\* the link model's columns for the ends e: owner first
LinkModelKeysOf(e) ==
  IF e.cls = module[1] THEN LinkModelKeys ELSE << LinkModelKeys[2], LinkModelKeys[1] >>

\* _ManyToManyBase.sql_joins: lnkclskey and lnkrefkey
SqlJoinKeys(e) == LinkKeysByTable(e)

\* ManyToManySet.__init__: lnkcls_id and lnkref_id
SetJoinKeys(e) == LinkKeysByTable(e)

\* ManyToManySet.append, pop and clear: the keywords handed to the link model
SetKeywords(e) == LinkKeysByName(e)

LinkCall(op, side, arg, err, out, rows, rid) ==
  /\ call' = Call(op, err, [side |-> side, arg |-> arg], out)
  /\ db' = [db EXCEPT !.lnk = rows]
  /\ rowid' = rid
  /\ nops' = nops + 1
  /\ UNCHANGED << qsvars, obj, removed, sidevars >>

\* the row of the link table that create(**h) inserts, k being its rowid
LinkRow(k, keys, owner, other) == ("id" :> k) @@ (keys[1] :> owner) @@ (keys[2] :> other)

\* owner.<side>.append(other): self.lnk.create(**h); Model.__init__(**kw)
\* refuses a keyword that is no field of the link model
LinkAppend(side, owner, other) ==
  /\ nops < MaxLinkOps
  /\ IF ~(Range(SetKeywords(Ends(side))) \subseteq LinkModelColumns)
       THEN LinkCall("append", side, << owner, other >>, "ValueError", None, db.lnk, rowid)
       ELSE LinkCall("append", side, << owner, other >>, "", None,
                     db.lnk \cup { LinkRow(rowid + 1, SetKeywords(Ends(side)), owner, other) },
                     rowid + 1)

\* the rows self.lnk.select(**h) selects: a keyword that is no column of
\* the link model cannot be parsed
Selects(keys, r, vals) == \A k \in DOMAIN vals : r[keys[k]] = vals[k]

LinkDeleteBy(op, side, vals) ==
  IF ~(Range(SetKeywords(Ends(side))) \subseteq LinkModelColumns)
    THEN LinkCall(op, side, vals, "KeyError", None, db.lnk, rowid)
    ELSE LinkCall(op, side, vals, "", None,
                  { r \in db.lnk : ~Selects(SetKeywords(Ends(side)), r, vals) }, rowid)

\* owner.<side>.pop(other)
LinkPop(side, owner, other) ==
  /\ nops < MaxLinkOps
  /\ LinkDeleteBy("pop", side, << owner, other >>)

\* owner.<side>.clear()
LinkClear(side, owner) ==
  /\ nops < MaxLinkOps
  /\ LinkDeleteBy("clear", side, << owner >>)

\* the keys at the far end of the rows whose column keys[1] is owner
FarKeys(rows, keys, owner) == { r[keys[2]] : r \in { x \in rows : x[keys[1]] = owner } }

\* list(owner.<side>): the joins of ManyToManySet name the link columns
\* bare, '"post"."id" = "post_id"'.  A double-quoted name that is no column
\* is a string literal to an SQLite built with that legacy feature, and
\* equals no key; to any other SQLite it is an error.
LinkRead(side, owner) ==
  /\ nops < MaxLinkOps
  /\ IF Range(SetJoinKeys(Ends(side))) \subseteq LinkModelColumns
       THEN LinkCall("read", side, owner, "",
                     FarKeys(db.lnk, SetJoinKeys(Ends(side)), owner), db.lnk, rowid)
       ELSE \E err \in {"", "OperationalError"} :
              LinkCall("read", side, owner, err, {}, db.lnk, rowid)

\* the owners a query-set joined along <side> yields for the far key
\* other, as in Post.select(tags__id=other): sql_joins qualifies the link
\* columns with the alias of the link table
LinkJoin(side, other) ==
  /\ nops < MaxLinkOps
  /\ IF Range(SqlJoinKeys(Ends(side))) \subseteq LinkModelColumns
       THEN LinkCall("join", side, other, "",
                     FarKeys(db.lnk, << SqlJoinKeys(Ends(side))[2], SqlJoinKeys(Ends(side))[1] >>,
                             other),
                     db.lnk, rowid)
       ELSE LinkCall("join", side, other, "OperationalError", {}, db.lnk, rowid)

Sides == { "tags", "posts" }
Keys == { 1, 2 }

\* the declarations: each class with or without a _table_name of its own
InitLink ==
  /\ qs = [ r \in Slots |-> FreshQuerySet("post", r) ]
  /\ clauses = [ r \in Slots |-> FreshClauses ]
  /\ recv = 1
  /\ call = NoCall
  /\ nops = 0
  /\ obj = None
  /\ rowid = 0
  /\ removed = FALSE
  /\ \E pt \in { "post", "posts" }, tt \in { "tag", "label" } :
       module = << ModelClass("post", pt), ModelClass("tag", tt) >>
  /\ fields = << >>
  /\ suspended = << >>
  /\ pre_field_order = << >>
  /\ NoGlobals
  /\ readers = << >>
  /\ conn = NoConnection
  /\ db = [lnk |-> {}]

NextLink ==
  \/ \E side \in Sides, owner \in Keys, other \in Keys : LinkAppend(side, owner, other)
  \/ \E side \in Sides, owner \in Keys, other \in Keys : LinkPop(side, owner, other)
  \/ \E side \in Sides, owner \in Keys : LinkClear(side, owner)
  \/ \E side \in Sides, owner \in Keys : LinkRead(side, owner)
  \/ \E side \in Sides, other \in Keys : LinkJoin(side, other)

SpecLink == InitLink /\ [][NextLink]_vars

(* C30: for both accessors of a many-to-many pair, whatever the tables of  *)
(* the two classes are called, the link columns named in the JOIN clauses  *)
(* are the foreign-key columns of the link model and the names append, pop *)
(* and clear use; so what an accessor or a join reads is what the link     *)
(* table holds.                                                            *)
LinkNamesAgree ==
  /\ call.op \in {"append", "pop", "clear", "read", "join"} =>
       /\ SqlJoinKeys(Ends(call.arg.side)) = LinkModelKeysOf(Ends(call.arg.side))
       /\ SetJoinKeys(Ends(call.arg.side)) = LinkModelKeysOf(Ends(call.arg.side))
       /\ SetKeywords(Ends(call.arg.side)) = LinkModelKeysOf(Ends(call.arg.side))
  /\ call.op = "read" =>
       /\ call.err = ""
       /\ call.out = FarKeys(db.lnk, LinkModelKeysOf(Ends(call.arg.side)), call.arg.arg)
  /\ call.op = "join" =>
       /\ call.err = ""
       /\ call.out = FarKeys(db.lnk, << LinkModelKeysOf(Ends(call.arg.side))[2],
                                        LinkModelKeysOf(Ends(call.arg.side))[1] >>,
                             call.arg.arg)
====
